---- MODULE Spec2Model ----
(***************************************************************************)
(* Docs++ distributed document store: the Name Server (NM) file directory  *)
(* with its LRU cache, the NM request handlers and their synchronous RPCs  *)
(* to the storage servers (SS), the SS handlers for NM commands, and the   *)
(* SS sentence lock registry.                                              *)
(*                                                                         *)
(* Strings are sequences of one-character strings, so that formatting and  *)
(* parsing (ACL serialisation, strtok, strchr) are computed as in the C.   *)
(***************************************************************************)
EXTENDS Integers, Sequences, FiniteSets, TLC

VARIABLES
    buckets,               \* file_table.buckets: bucket index -> chain of entries (head first)
    total_files,           \* file_table.total_files
    lru_cache,             \* lru_cache list, head (most recently used) first
    storage_servers_list,  \* linked list of registered storage nodes, head first
    last_selected_index,   \* round-robin cursor of select_storage_server_for_create
    conn,                  \* NM descriptor table: fd -> peer of the open connection
    ss_disk,               \* per storage server: file name -> data file, sidecar, backup
    last,                  \* the request the NM handled last, and its outcome
    global_lock_list,      \* SS sentence locks, head first
    lock_list_mutex,       \* holder of lock_list_mutex, or NoWorker
    wk,                    \* per SS worker: the lock call it is executing
    findLog,               \* history of Find calls issued in the eviction scenario
    faults,                \* failures so far: failed exchanges and lost storage nodes
    sess,                  \* per SS client connection: the thread's WRITE session
    inbox,                 \* per NM descriptor: the request received and not yet read
    nm_call,               \* the request the NM's thread has read and not yet answered
    rx,                    \* frame reception: frame sent, bytes delivered, outcome
    reply,                 \* response.data of the NM's last response to a CREATE, DELETE,
                           \* UNDO or EXEC (NoData after any other step)
    served                 \* the last call of process_connection_data: descriptor, return
                           \* value of recv_request, connection state, responses sent

vars == <<buckets, total_files, lru_cache, storage_servers_list, last_selected_index,
          conn, ss_disk, last, global_lock_list, lock_list_mutex, wk, findLog, faults,
          sess, inbox, nm_call, rx, reply, served>>

nmVars   == <<buckets, total_files, lru_cache, storage_servers_list, last_selected_index,
             conn, ss_disk, last, faults, reply>>
lockVars == <<global_lock_list, lock_list_mutex, wk>>
loopVars == <<inbox, nm_call>>

----------------------------------------------------------------------------
(* Program constants *)

MAX_FILENAME_LEN   == 256
MAX_USERNAME_LEN   == 64
MAX_ARGS_LEN       == 1024
MAX_CLIENTS        == 100
HASH_TABLE_SIZE    == 1024
LRU_CACHE_CAPACITY == 10
ACL_STR_MARGIN     == 50

ACCESS_NONE  == 0
ACCESS_READ  == 1
ACCESS_WRITE == 2
ACCESS_BOTH  == 3

STATUS_OK                       == 0
STATUS_ERROR_NOT_FOUND          == 1001
STATUS_ERROR_INVALID_ARGS       == 1004
STATUS_ERROR_SERVER_UNAVAILABLE == 1005
STATUS_ERROR_FILE_EXISTS        == 1006
STATUS_ERROR_INVALID_FILENAME   == 1007
STATUS_ERROR_READ_PERMISSION    == 1012
STATUS_ERROR_OWNER_REQUIRED     == 1013
STATUS_ERROR_NETWORK            == 1014
STATUS_ERROR_INVALID_OPERATION  == 1016
STATUS_ERROR_INTERNAL           == 1020
STATUS_ERROR_LOCKED             == 1003
STATUS_ERROR_WRITE_PERMISSION   == 1011

----------------------------------------------------------------------------
(* Bounds of the model *)

NumSS      == 2      \* storage server daemons
NumAclSS   == 1      \* storage server daemons in the access control scenario
MaxFaults  == 1      \* failures in one run: failed exchanges and lost storage nodes
NumFds     == 2      \* descriptors the NM hands out to accepted connections
NumWorkers == 2      \* concurrent SS client workers calling the lock registry
MaxIndex   == 1      \* sentence indices 0..MaxIndex
FindChoice == 2      \* eviction scenario: next fresh name taken among this many
MaxFinds   == 12     \* eviction scenario: number of Find calls
NumConns   == 1      \* client connections of the storage server open at a time
MaxUpdates == 1      \* word updates acknowledged in one WRITE session
NumClients == 2      \* client connections of the NM in the request ordering scenario
NumPairConns == 2    \* client connections of the storage server with concurrent sessions
PayloadLen == 32     \* bytes of a frame between the magic and the checksum field
MaxAltered == 2      \* bytes of a frame that differ on arrival from the bytes sent

----------------------------------------------------------------------------
(* Characters and strings *)

\* character codes (ASCII) of the characters the model's strings use
Ord(c) ==
    CASE c = " " -> 32  [] c = "," -> 44  [] c = "-" -> 45  [] c = "." -> 46
      [] c = "0" -> 48  [] c = "1" -> 49  [] c = "2" -> 50  [] c = "3" -> 51
      [] c = "4" -> 52  [] c = "5" -> 53  [] c = "6" -> 54  [] c = "7" -> 55
      [] c = "8" -> 56  [] c = "9" -> 57  [] c = ":" -> 58  [] c = "R" -> 82
      [] c = "W" -> 87  [] c = "a" -> 97  [] c = "b" -> 98  [] c = "c" -> 99
      [] c = "e" -> 101 [] c = "f" -> 102 [] c = "g" -> 103 [] c = "k" -> 107
      [] c = "m" -> 109 [] c = "t" -> 116 [] c = "z" -> 122

\* strncpy(dst, src, n - 1); dst[n - 1] = '\0'
Trunc(s, n) == IF Len(s) <= n - 1 THEN s ELSE SubSeq(s, 1, n - 1)

\* index of the first occurrence of character c in s, 0 when absent (strchr)
RECURSIVE IndexFrom(_, _, _)
IndexFrom(s, c, i) ==
    IF i > Len(s) THEN 0
    ELSE IF s[i] = c THEN i ELSE IndexFrom(s, c, i + 1)

StrChr(s, c) == IndexFrom(s, c, 1)

\* the tokens strtok(_r) returns for delimiter c: maximal runs without c
RECURSIVE StrTok(_, _)
StrTok(s, c) ==
    IF s = <<>> THEN <<>>
    ELSE LET i == StrChr(s, c)
         IN  IF i = 0 THEN <<s>>
             ELSE IF i = 1 THEN StrTok(Tail(s), c)
             ELSE <<SubSeq(s, 1, i - 1)>> \o StrTok(SubSeq(s, i + 1, Len(s)), c)

HasRead(p)  == p % 2 = 1
HasWrite(p) == (p \div 2) % 2 = 1
BitOr(p, q) == (IF HasRead(p) \/ HasRead(q) THEN 1 ELSE 0)
             + (IF HasWrite(p) \/ HasWrite(q) THEN 2 ELSE 0)

----------------------------------------------------------------------------
(* Universe of inputs *)

\* two valid file names that hash to the same bucket
F1 == <<"a", "R">>
F2 == <<"b", "1">>
FileNames == {F1, F2}

\* user names as clients assert them; the NM does not validate them
Alice == <<"a">>
Bob   == <<"b">>
BobC  == <<"b", ",", "c">>

SS  == 1..NumSS
Fds == 4..(3 + NumFds)

\* descriptors of the client connections whose requests the select loop reads in the
\* request ordering scenario, accepted after those of Fds
ClientFds == (4 + NumFds)..(3 + NumFds + NumClients)

\* file_metadata_t as the handlers use it: owner and access list (the other fields are
\* time stamps and sizes no handler modelled here reads)
Metadata(owner, acl) == [present |-> TRUE, owner |-> owner, acl |-> acl]
NoMetadata == [present |-> FALSE, owner |-> <<>>, acl |-> <<>>]

----------------------------------------------------------------------------
(* NM file directory: hash table with chaining (nm_state.c) *)

NULL == 0

\* hash = hash * 33 + c over the name in 32-bit unsigned arithmetic.  Only the residue
\* modulo HASH_TABLE_SIZE is used, and HASH_TABLE_SIZE divides 2^32, so the wrap-around
\* at 2^32 leaves that residue unchanged and the residue is carried instead.
RECURSIVE djb2(_, _)
djb2(hash, s) ==
    IF s = <<>> THEN hash
    ELSE djb2((hash * 33 + Ord(Head(s))) % HASH_TABLE_SIZE, Tail(s))

hash_filename(filename) == djb2(5381, filename) % HASH_TABLE_SIZE

\* the entries of all chains
AllEntries(b) == UNION {{b[i][k] : k \in 1..Len(b[i])} : i \in DOMAIN b}

\* malloc: the lowest block not in use by a live entry
Malloc(b) ==
    LET used == {e.addr : e \in AllEntries(b)}
    IN  CHOOSE a \in 1..(Cardinality(used) + 1) : a \notin used

\* the entry a pointer refers to; a pointer to a freed entry reads as an entry with no name
Deref(b, p) ==
    IF \E e \in AllEntries(b) : e.addr = p
    THEN CHOOSE e \in AllEntries(b) : e.addr = p
    ELSE [filename |-> <<>>, ss_socket_fd |-> -1, owner |-> <<>>, acl |-> <<>>, addr |-> p]

\* position in a chain of the first entry whose name equals filename (strcmp), 0 if none
RECURSIVE ChainIndex(_, _, _)
ChainIndex(chain, filename, k) ==
    IF k > Len(chain) THEN 0
    ELSE IF chain[k].filename = filename THEN k ELSE ChainIndex(chain, filename, k + 1)

\* an insertion that counts the file also when its record exists already
add_file_always_counted(b, total, filename, ss_socket_fd, metadata) ==
    LET index == hash_filename(filename)
        k     == ChainIndex(b[index], filename, 1)
    IN  IF k # 0
        THEN [buckets |-> [b EXCEPT ![index][k].ss_socket_fd = ss_socket_fd],
              total_files |-> total + 1, ret |-> 1]
        ELSE [buckets |-> [b EXCEPT ![index] =
                             <<[filename |-> filename, ss_socket_fd |-> ss_socket_fd,
                                owner |-> metadata.owner, acl |-> metadata.acl,
                                addr |-> Malloc(b)]>> \o @],
              total_files |-> total + 1, ret |-> 0]

\* metadata.present = FALSE stands for the caller passing metadata == NULL
add_file_to_table(b, total, filename, ss_socket_fd, metadata) ==
    LET index == hash_filename(filename)
        k     == ChainIndex(b[index], filename, 1)
    IN  IF k # 0
        THEN LET cur == b[index][k]
                 upd == IF metadata.present
                        THEN [cur EXCEPT !.ss_socket_fd = ss_socket_fd,
                                         !.owner = metadata.owner, !.acl = metadata.acl]
                        ELSE [cur EXCEPT !.ss_socket_fd = ss_socket_fd]
             IN  [buckets |-> [b EXCEPT ![index][k] = upd], total_files |-> total, ret |-> 1]
        ELSE LET new_entry ==
                     [filename     |-> Trunc(filename, MAX_FILENAME_LEN),
                      ss_socket_fd |-> ss_socket_fd,
                      owner        |-> IF metadata.present THEN metadata.owner ELSE <<>>,
                      acl          |-> IF metadata.present THEN metadata.acl ELSE <<>>,
                      addr         |-> Malloc(b)]
             IN  [buckets     |-> [b EXCEPT ![index] = <<new_entry>> \o @],
                  total_files |-> total + 1,
                  ret         |-> 0]

remove_file_from_table(b, total, filename) ==
    LET index == hash_filename(filename)
        k     == ChainIndex(b[index], filename, 1)
    IN  IF k # 0
        THEN [buckets     |-> [b EXCEPT ![index] =
                                  SubSeq(@, 1, k - 1) \o SubSeq(@, k + 1, Len(@))],
              total_files |-> total - 1,
              ret         |-> 0]
        ELSE [buckets |-> b, total_files |-> total, ret |-> -1]

----------------------------------------------------------------------------
(* NM directory cache (nm_state.c): list of nodes {filename, entry}, head first *)

RECURSIVE LruIndex(_, _, _)
LruIndex(cache, filename, k) ==
    IF k > Len(cache) THEN 0
    ELSE IF cache[k].filename = filename THEN k ELSE LruIndex(cache, filename, k + 1)

lru_remove_node(cache, k) == SubSeq(cache, 1, k - 1) \o SubSeq(cache, k + 1, Len(cache))

lru_add_to_front(cache, node) == <<node>> \o cache

\* a lookup that leaves a node it finds where it is
lru_get_in_place(cache, filename) ==
    LET k == LruIndex(cache, filename, 1)
    IN  IF k # 0
        THEN [lru_cache |-> cache, entry |-> cache[k].entry]
        ELSE [lru_cache |-> cache, entry |-> NULL]

lru_get(cache, filename) ==
    LET k == LruIndex(cache, filename, 1)
    IN  IF k # 0
        THEN [lru_cache |-> lru_add_to_front(lru_remove_node(cache, k), cache[k]),
              entry     |-> cache[k].entry]
        ELSE [lru_cache |-> cache, entry |-> NULL]

\* an insertion that makes room by dropping the most recently used node
lru_put_evicting_head(cache, filename, entry) ==
    LET k == LruIndex(cache, filename, 1)
    IN  IF k # 0
        THEN lru_add_to_front(lru_remove_node(cache, k), [cache[k] EXCEPT !.entry = entry])
        ELSE LET new_node == [filename |-> Trunc(filename, MAX_FILENAME_LEN), entry |-> entry]
                 room     == IF Len(cache) >= LRU_CACHE_CAPACITY
                             THEN lru_remove_node(cache, 1)
                             ELSE cache
             IN  lru_add_to_front(room, new_node)

lru_put(cache, filename, entry) ==
    LET k == LruIndex(cache, filename, 1)
    IN  IF k # 0
        THEN lru_add_to_front(lru_remove_node(cache, k), [cache[k] EXCEPT !.entry = entry])
        ELSE LET new_node == [filename |-> Trunc(filename, MAX_FILENAME_LEN), entry |-> entry]
                 room     == IF Len(cache) >= LRU_CACHE_CAPACITY
                             THEN lru_remove_node(cache, Len(cache))
                             ELSE cache
             IN  lru_add_to_front(room, new_node)

\* a removal that leaves the cache alone
purge_skipped(cache, filename) == cache

\* a purge that drops the least recently used node instead of the named one
purge_of_tail(cache, filename) ==
    IF cache = <<>> THEN cache ELSE lru_remove_node(cache, Len(cache))

remove_file_from_lru_cache(cache, filename) ==
    LET k == LruIndex(cache, filename, 1)
    IN  IF k # 0 THEN lru_remove_node(cache, k) ELSE cache

\* a lookup that consults the cache alone
lookup_cache_only(b, cache, filename) == lru_get(cache, filename)

\* cache first; on a miss walk the chain and cache the entry found
find_file_in_table(b, cache, filename) ==
    LET cached == lru_get(cache, filename)
    IN  IF cached.entry # NULL THEN cached
        ELSE LET index == hash_filename(filename)
                 k     == ChainIndex(b[index], filename, 1)
             IN  IF k # 0
                 THEN [lru_cache |-> lru_put(cache, filename, b[index][k].addr),
                       entry     |-> b[index][k].addr]
                 ELSE [lru_cache |-> cache, entry |-> NULL]

\* a lookup in the hash table alone
TableLookup(b, filename) ==
    LET index == hash_filename(filename)
        k     == ChainIndex(b[index], filename, 1)
    IN  IF k # 0 THEN b[index][k].addr ELSE NULL

----------------------------------------------------------------------------
(* ACL wire format "user:PERM,user:PERM" (name_server.c, storage_server.c) *)

\* the PERM text for permission bits: RW, R, RW (write implies read) or -
PermString(p) ==
    IF HasRead(p) /\ HasWrite(p) THEN <<"R", "W">>
    ELSE IF HasRead(p) THEN <<"R">>
    ELSE IF HasWrite(p) THEN <<"R", "W">>
    ELSE <<"-">>

\* the serialisation loop of handle_addaccess / handle_remaccess: entries are appended
\* while the offset is below sizeof(acl_str) - 50
RECURSIVE SerializeFrom(_, _, _)
SerializeFrom(acl, i, acc) ==
    IF i > Len(acl) \/ Len(acc) >= MAX_ARGS_LEN - ACL_STR_MARGIN THEN acc
    ELSE SerializeFrom(acl, i + 1,
             acc \o (IF i > 1 THEN <<",">> ELSE <<>>)
                 \o acl[i].user \o <<":">> \o PermString(acl[i].perm))

SerializeAcl(acl) == Trunc(SerializeFrom(acl, 1, <<>>), MAX_ARGS_LEN)

\* ss_request.args of CMD_UPDATE_ACL: "<filename> <acl_str>"
UpdateAclArgs(filename, acl) == Trunc(filename \o <<" ">> \o SerializeAcl(acl), MAX_ARGS_LEN)

\* permission bits a PERM text stands for (strstr / strchr for R and W; write implies read)
PermBits(perms) ==
    LET r == StrChr(perms, "R") # 0
        w == StrChr(perms, "W") # 0
    IN  (IF r \/ w THEN ACCESS_READ ELSE ACCESS_NONE) + (IF w THEN ACCESS_WRITE ELSE ACCESS_NONE)

\* the token loop of parse_acl_into_meta: tokens without a colon are skipped
RECURSIVE ParseTokens(_, _)
ParseTokens(tokens, acc) ==
    IF tokens = <<>> \/ Len(acc) >= MAX_CLIENTS THEN acc
    ELSE LET token == Head(tokens)
             colon == StrChr(token, ":")
         IN  IF colon = 0 THEN ParseTokens(Tail(tokens), acc)
             ELSE ParseTokens(Tail(tokens),
                      Append(acc, [user |-> Trunc(SubSeq(token, 1, colon - 1), MAX_USERNAME_LEN),
                                   perm |-> PermBits(SubSeq(token, colon + 1, Len(token)))]))

parse_acl_into_meta(acl_str) == ParseTokens(StrTok(Trunc(acl_str, MAX_ARGS_LEN), ","), <<>>)

\* the access_N=user:PERM lines a sidecar holds for an access list
SidecarLines(acl) == [i \in 1..Len(acl) |-> [user |-> acl[i].user, perm |-> PermString(acl[i].perm)]]

\* the access list a sidecar's access_N lines denote
SidecarAcl(lines) == [i \in 1..Len(lines) |-> [user |-> lines[i].user, perm |-> PermBits(lines[i].perm)]]

----------------------------------------------------------------------------
(* Storage server: files on disk and the handlers for NM commands *)

\* one stored document: data file, sidecar <name>.meta, backup <name>.bak
\* text and baktext are the contents of the data file and of the backup, as words
NoDoc == [data |-> FALSE, meta |-> FALSE, owner |-> <<>>, access |-> <<>>, bak |-> FALSE,
          text |-> <<>>, baktext |-> <<>>]

\* a create that writes a sidecar without the access_0 line of the owner
create_without_owner_entry(disk, filename, username, io_fails) ==
    IF disk[filename].data
    THEN [disk |-> disk, status |-> STATUS_ERROR_FILE_EXISTS]
    ELSE IF io_fails
    THEN [disk |-> disk, status |-> STATUS_ERROR_INTERNAL]
    ELSE [disk   |-> [disk EXCEPT ![filename] =
                        [@ EXCEPT !.data = TRUE, !.meta = TRUE, !.owner = username,
                                  !.access = <<>>]],
          status |-> STATUS_OK]

\* handle_create_request; io_fails: fopen of the data file or of the sidecar fails
handle_create_request(disk, filename, username, io_fails) ==
    IF disk[filename].data
    THEN [disk |-> disk, status |-> STATUS_ERROR_FILE_EXISTS]
    ELSE IF io_fails
    THEN [disk |-> disk, status |-> STATUS_ERROR_INTERNAL]
    ELSE [disk   |-> [disk EXCEPT ![filename] =
                        [@ EXCEPT !.data = TRUE, !.meta = TRUE, !.owner = username,
                                  !.access = <<[user |-> username, perm |-> <<"R", "W">>]>>]],
          status |-> STATUS_OK]

\* a delete that does not consult the sidecar's owner
delete_without_owner_check(disk, filename, username, io_fails) ==
    IF ~disk[filename].data
    THEN [disk |-> disk, status |-> STATUS_ERROR_NOT_FOUND]
    ELSE IF io_fails
    THEN [disk |-> disk, status |-> STATUS_ERROR_INTERNAL]
    ELSE [disk |-> [disk EXCEPT ![filename] = NoDoc], status |-> STATUS_OK]

\* handle_delete_request; io_fails: unlink of the data file fails
handle_delete_request(disk, filename, username, io_fails) ==
    IF ~disk[filename].data
    THEN [disk |-> disk, status |-> STATUS_ERROR_NOT_FOUND]
    ELSE IF disk[filename].meta /\ Len(disk[filename].owner) > 0
                                /\ disk[filename].owner # username
    THEN [disk |-> disk, status |-> STATUS_ERROR_OWNER_REQUIRED]
    ELSE IF io_fails
    THEN [disk |-> disk, status |-> STATUS_ERROR_INTERNAL]
    ELSE [disk |-> [disk EXCEPT ![filename] = NoDoc], status |-> STATUS_OK]

\* handle_update_acl_request; io_fails: fopen of the sidecar for writing fails
handle_update_acl_request(disk, args, io_fails) ==
    LET first_space == StrChr(args, " ")
        filename    == SubSeq(args, 1, first_space - 1)
        acl_str     == SubSeq(args, first_space + 1, Len(args))
    IN  IF first_space = 0
        THEN [disk |-> disk, status |-> STATUS_ERROR_INVALID_ARGS]
        ELSE IF filename \notin DOMAIN disk \/ ~disk[filename].meta
        THEN [disk |-> disk, status |-> STATUS_ERROR_NOT_FOUND]
        ELSE IF io_fails
        THEN [disk |-> disk, status |-> STATUS_ERROR_INTERNAL]
        ELSE [disk   |-> [disk EXCEPT ![filename].access =
                             SidecarLines(parse_acl_into_meta(acl_str))],
              status |-> STATUS_OK]

\* an undo that copies the backup over the file and keeps the backup
undo_keeping_backup(disk, filename, io_fails) ==
    IF filename \notin DOMAIN disk \/ ~disk[filename].bak
    THEN [disk |-> disk, status |-> STATUS_ERROR_NOT_FOUND]
    ELSE IF io_fails
    THEN [disk |-> disk, status |-> STATUS_ERROR_INTERNAL]
    ELSE [disk   |-> [disk EXCEPT ![filename].data = TRUE,
                                  ![filename].text = disk[filename].baktext],
          status |-> STATUS_OK]

\* CMD_UNDO in handle_nm_commands; io_fails: rename of the backup fails
undo_request(disk, filename, io_fails) ==
    IF filename \notin DOMAIN disk \/ ~disk[filename].bak
    THEN [disk |-> disk, status |-> STATUS_ERROR_NOT_FOUND]
    ELSE IF io_fails
    THEN [disk |-> disk, status |-> STATUS_ERROR_INTERNAL]
    ELSE [disk   |-> [disk EXCEPT ![filename].data = TRUE,
                                  ![filename].text = disk[filename].baktext,
                                  ![filename].bak = FALSE,
                                  ![filename].baktext = <<>>],
          status |-> STATUS_OK]

\* response.data: the format string, the file name formatted into it, and the file
\* content or script output it carries
NoData == [text |-> "", arg |-> <<>>, body |-> <<>>]
Msg(text, arg) == [text |-> text, arg |-> arg, body |-> <<>>]

\* response.data of handle_create_request ("Failed to create metadata file" when it is
\* the sidecar that cannot be opened)
create_response_data(disk, filename, io_fails) ==
    IF disk[filename].data THEN Msg("File already exists on storage", <<>>)
    ELSE IF io_fails THEN Msg("Failed to create file: %s", <<>>)
    ELSE Msg("File created on storage", <<>>)

\* response.data of handle_delete_request
delete_response_data(disk, filename, username, io_fails) ==
    IF ~disk[filename].data THEN Msg("File not found on storage", <<>>)
    ELSE IF disk[filename].meta /\ Len(disk[filename].owner) > 0
                                /\ disk[filename].owner # username
    THEN Msg("Only the owner can delete this file", <<>>)
    ELSE IF io_fails THEN Msg("Failed to delete file: %s", <<>>)
    ELSE Msg("File deleted from storage", <<>>)

\* response.data of CMD_UNDO in handle_nm_commands
undo_response_data(disk, filename, io_fails) ==
    IF filename \notin DOMAIN disk \/ ~disk[filename].bak
    THEN Msg("No backup found for '%s'", filename)
    ELSE IF io_fails THEN Msg("Failed to restore '%s': %s", filename)
    ELSE Msg("File '%s' restored from backup", filename)

\* CMD_READ in handle_nm_commands: the file's content for EXEC; io_fails: fopen fails
read_request(disk, filename, io_fails) ==
    IF filename \notin DOMAIN disk \/ ~disk[filename].data \/ io_fails
    THEN [status |-> STATUS_ERROR_NOT_FOUND, data |-> Msg("File not found: %s", filename)]
    ELSE [status |-> STATUS_OK,
          data   |-> [text |-> "", arg |-> <<>>, body |-> disk[filename].text]]

----------------------------------------------------------------------------
(* Name Server: connections, storage node registry, RPC to a storage node *)

FreeConn == [kind |-> "free", ss |-> 0, ready |-> FALSE]

\* accept(): the lowest descriptor not in use
LowestFree == CHOOSE fd \in Fds : conn[fd].kind = "free" /\ \A g \in Fds : g < fd => conn[g].kind # "free"

\* position of the first node with this descriptor, 0 if none
RECURSIVE NodeIndex(_, _, _)
NodeIndex(list, socket_fd, k) ==
    IF k > Len(list) THEN 0
    ELSE IF list[k].socket_fd = socket_fd THEN k ELSE NodeIndex(list, socket_fd, k + 1)

find_storage_server_by_fd(list, socket_fd) == NodeIndex(list, socket_fd, 1)

add_storage_server(list, client_port, socket_fd) ==
    <<[socket_fd |-> socket_fd, client_port |-> client_port]>> \o list

remove_storage_server(list, socket_fd) ==
    LET k == NodeIndex(list, socket_fd, 1)
    IN  IF k # 0 THEN SubSeq(list, 1, k - 1) \o SubSeq(list, k + 1, Len(list)) ELSE list

\* a selection that takes the node under the cursor and leaves the cursor where it is
select_without_advancing(list, cursor) ==
    IF list = <<>>
    THEN [found |-> FALSE, socket_fd |-> -1, cursor |-> cursor]
    ELSE LET idx == IF cursor < 0 THEN 0 ELSE cursor % Len(list)
         IN  [found |-> TRUE, socket_fd |-> list[idx + 1].socket_fd, cursor |-> idx]

\* round-robin: the cursor advances by one modulo the number of registered nodes
select_storage_server_for_create(list, cursor) ==
    IF list = <<>>
    THEN [found |-> FALSE, socket_fd |-> -1, cursor |-> cursor]
    ELSE LET idx == (cursor + 1) % Len(list)
         IN  [found |-> TRUE, socket_fd |-> list[idx + 1].socket_fd, cursor |-> idx]

\* The ways a send_packet / recv_packet exchange with a storage node can end:
\*   none       request delivered, handled, response received
\*   ss_io      as none, with a file operation of the storage node failing
\*   send_fail  send_packet returns -1
\*   no_reply   request sent, never handled, recv_packet returns <= 0
\*   reply_lost request handled by the storage node, recv_packet returns <= 0
Faults == {"none", "ss_io", "send_fail", "no_reply", "reply_lost"}

\* the storage server serving NM commands behind a descriptor, 0 if there is none
PeerSS(fd) == IF fd \in Fds /\ conn[fd].kind = "ss" /\ conn[fd].ready THEN conn[fd].ss ELSE 0

\* the ends an exchange over fd can take: on a closed descriptor the send fails, a peer
\* that serves no NM commands never answers, and a serving storage node fails only
\* while the run's failures are not used up
FaultPossible(fd, fault) ==
    IF fd \notin Fds \/ conn[fd].kind = "free" THEN fault = "send_fail"
    ELSE IF PeerSS(fd) = 0 THEN fault \in {"send_fail", "no_reply"}
    ELSE fault = "none" \/ faults < MaxFaults

Spent(fd, fault) == IF PeerSS(fd) # 0 /\ fault # "none" THEN 1 ELSE 0

Handled(fault)  == fault \in {"none", "ss_io", "reply_lost"}
Received(fault) == fault \in {"none", "ss_io"}

\* a handler that skips the status test and goes on once a response has arrived
ConfirmedOnReceipt(fault, status) == Received(fault)

\* the handler goes on to change the directory: recv_packet returned > 0 and the
\* storage server's status is STATUS_OK
Confirmed(fault, status) == Received(fault) /\ status = STATUS_OK

\* outcome of the exchange as the handler sees it
RpcOutcome(fault, status) ==
    IF ~Received(fault) THEN fault
    ELSE IF status = STATUS_OK THEN "ok" ELSE "refused"

\* the request handled and the response sent: command, file, status, and how the exchange
\* with the storage node ended ("local" when the handler contacted none)
Response(cmd, file, status, rpc) ==
    [cmd |-> cmd, file |-> file, status |-> status, rpc |-> rpc]

\* a handler that answers a refusal in its own words
data_reworded(ss_response) == Msg("Storage server error", <<>>)

\* snprintf(response.data, sizeof(response.data), "%s", ss_response.data)
relayed_data(ss_response) == ss_response.data

\* response.data after an exchange: the handler's words when the exchange failed or
\* ended with STATUS_OK, the storage server's when it refused
ExchangeData(fault, ss_response, sent_failed, not_received, done) ==
    IF fault = "send_fail" THEN Msg(sent_failed, <<>>)
    ELSE IF ~Received(fault) THEN Msg(not_received, <<>>)
    ELSE IF ss_response.status # STATUS_OK THEN relayed_data(ss_response)
    ELSE Msg(done, <<>>)

\* the entry with the address of e replaced by e (a write through the pointer)
UpdateEntry(b, e) ==
    [i \in DOMAIN b |-> [k \in 1..Len(b[i]) |-> IF b[i][k].addr = e.addr THEN e ELSE b[i][k]]]

\* validate_filename: non-empty, shorter than MAX_FILENAME_LEN, none of <>:"|?*, not reserved.
\* The reserved names besides "." and ".." (CON, PRN, AUX, NUL) use letters outside the
\* model's alphabet.
validate_filename(filename) ==
    /\ Len(filename) > 0
    /\ Len(filename) < MAX_FILENAME_LEN
    /\ \A i \in 1..Len(filename) : filename[i] \notin {"<", ">", ":", "\"", "|", "?", "*"}
    /\ filename \notin {<<".">>, <<".", ".">>}

----------------------------------------------------------------------------
(* Name Server: request handlers (name_server.c) *)

\* main loop: accept() of a connection from storage server s, which sends SS_INIT
AcceptSS(s) ==
    /\ \E fd \in Fds : conn[fd].kind = "free"
    /\ \A fd \in Fds : ~(conn[fd].kind = "ss" /\ conn[fd].ss = s)
    /\ conn' = [conn EXCEPT ![LowestFree] = [kind |-> "ss", ss |-> s, ready |-> FALSE]]
    /\ reply' = NoData
    /\ last' = Response("ACCEPT", <<>>, STATUS_OK, "local")
    /\ UNCHANGED <<buckets, total_files, lru_cache, storage_servers_list,
                   last_selected_index, ss_disk, faults>>

\* main loop: accept() of a connection from a client
AcceptClient ==
    /\ \E fd \in Fds : conn[fd].kind = "free"
    /\ conn' = [conn EXCEPT ![LowestFree] = [kind |-> "client", ss |-> 0, ready |-> TRUE]]
    /\ reply' = NoData
    /\ last' = Response("ACCEPT", <<>>, STATUS_OK, "local")
    /\ UNCHANGED <<buckets, total_files, lru_cache, storage_servers_list,
                   last_selected_index, ss_disk, faults>>

\* process_connection_data, recv_request <= 0: clean up and close the descriptor
Disconnect(fd) ==
    /\ conn[fd].kind # "free"
    /\ storage_servers_list' = remove_storage_server(storage_servers_list, fd)
    /\ conn' = [conn EXCEPT ![fd] = FreeConn]
    /\ IF conn[fd].kind = "ss"
       THEN faults < MaxFaults /\ faults' = faults + 1
       ELSE UNCHANGED faults
    /\ reply' = NoData
    /\ last' = Response("CLOSE", <<>>, STATUS_OK, "local")
    /\ UNCHANGED <<buckets, total_files, lru_cache, last_selected_index, ss_disk>>

\* discover_local_files: every directory entry not starting with '.', so a document
\* contributes its data file, its backup and its sidecar (readdir order is unspecified;
\* the order only decides the chain order of names sharing a bucket)
DocFiles(disk, f) ==
    (IF disk[f].data THEN <<f>> ELSE <<>>)
    \o (IF disk[f].bak THEN <<f \o <<".", "b", "a", "k">>>> ELSE <<>>)
    \o (IF disk[f].meta THEN <<f \o <<".", "m", "e", "t", "a">>>> ELSE <<>>)

discover_local_files(disk) == DocFiles(disk, F1) \o DocFiles(disk, F2)

\* the file loop of handle_ss_init: add_file_to_table(token, sockfd, NULL) per listed name
RECURSIVE RegisterFiles(_, _, _)
RegisterFiles(tbl, files, sockfd) ==
    IF files = <<>> THEN tbl
    ELSE LET r == add_file_to_table(tbl.buckets, tbl.total_files, Head(files), sockfd, NoMetadata)
         IN  RegisterFiles([buckets |-> r.buckets, total_files |-> r.total_files],
                           Tail(files), sockfd)

\* handle_ss_init on the SS_INIT a connected storage server sent
HandleSSInit(fd) ==
    /\ conn[fd].kind = "ss" /\ ~conn[fd].ready
    /\ LET tbl == RegisterFiles([buckets |-> buckets, total_files |-> total_files],
                                discover_local_files(ss_disk[conn[fd].ss]), fd)
       IN  /\ buckets' = tbl.buckets
           /\ total_files' = tbl.total_files
    /\ storage_servers_list' = add_storage_server(storage_servers_list, conn[fd].ss, fd)
    /\ conn' = [conn EXCEPT ![fd].ready = TRUE]
    /\ reply' = NoData
    /\ last' = Response("SS_INIT", <<>>, STATUS_OK, "local")
    /\ UNCHANGED <<lru_cache, last_selected_index, ss_disk, faults>>

\* handle_create_file
HandleCreate(u, f, fault) ==
    LET found == find_file_in_table(buckets, lru_cache, f)
        sel   == select_storage_server_for_create(storage_servers_list, last_selected_index)
        s     == PeerSS(sel.socket_fd)
        res   == IF Handled(fault) /\ s # 0
                 THEN handle_create_request(ss_disk[s], f, u, fault = "ss_io")
                 ELSE [disk |-> <<>>, status |-> STATUS_ERROR_NETWORK]
        ins   == add_file_to_table(buckets, total_files, f, sel.socket_fd,
                     Metadata(u, <<[user |-> Trunc(u, MAX_USERNAME_LEN), perm |-> ACCESS_BOTH]>>))
    IN  IF ~validate_filename(f)
        THEN /\ fault = "none"
             /\ reply' = Msg("Invalid filename: %s", f)
             /\ last' = Response("CREATE", f, STATUS_ERROR_INVALID_FILENAME, "local")
             /\ UNCHANGED <<buckets, total_files, lru_cache, storage_servers_list,
                            last_selected_index, conn, ss_disk, faults>>
        ELSE IF found.entry # NULL
        THEN /\ fault = "none"
             /\ lru_cache' = found.lru_cache
             /\ reply' = Msg("File '%s' already exists", f)
             /\ last' = Response("CREATE", f, STATUS_ERROR_FILE_EXISTS, "local")
             /\ UNCHANGED <<buckets, total_files, storage_servers_list,
                            last_selected_index, conn, ss_disk, faults>>
        ELSE IF ~sel.found
        THEN /\ fault = "none"
             /\ reply' = Msg("No storage servers available", <<>>)
             /\ last' = Response("CREATE", f, STATUS_ERROR_SERVER_UNAVAILABLE, "local")
             /\ UNCHANGED <<buckets, total_files, lru_cache, storage_servers_list,
                            last_selected_index, conn, ss_disk, faults>>
        ELSE /\ FaultPossible(sel.socket_fd, fault)
             /\ last_selected_index' = sel.cursor
             /\ ss_disk' = IF Handled(fault) /\ s # 0
                           THEN [ss_disk EXCEPT ![s] = res.disk] ELSE ss_disk
             /\ IF Confirmed(fault, res.status)
                THEN /\ buckets' = ins.buckets
                     /\ total_files' = ins.total_files
                ELSE UNCHANGED <<buckets, total_files>>
             /\ reply' = ExchangeData(fault,
                             [status |-> res.status,
                              data   |-> create_response_data(ss_disk[s], f, fault = "ss_io")],
                             "Failed to communicate with storage server",
                             "Storage server did not respond",
                             "File created successfully")
             /\ last' = Response("CREATE", f,
                            IF Received(fault) THEN res.status ELSE STATUS_ERROR_NETWORK,
                            RpcOutcome(fault, res.status))
             /\ faults' = faults + Spent(sel.socket_fd, fault)
             /\ UNCHANGED <<lru_cache, storage_servers_list, conn>>

\* handle_delete_file
HandleDelete(u, f, fault) ==
    LET found == find_file_in_table(buckets, lru_cache, f)
        entry == Deref(buckets, found.entry)
        ss_fd == entry.ss_socket_fd
        s     == PeerSS(ss_fd)
        res   == IF Handled(fault) /\ s # 0
                 THEN handle_delete_request(ss_disk[s], f, u, fault = "ss_io")
                 ELSE [disk |-> <<>>, status |-> STATUS_ERROR_NETWORK]
        rem   == remove_file_from_table(buckets, total_files, f)
    IN  IF found.entry = NULL
        THEN /\ fault = "none"
             /\ reply' = Msg("File '%s' not found", f)
             /\ last' = Response("DELETE", f, STATUS_ERROR_NOT_FOUND, "local")
             /\ UNCHANGED <<buckets, total_files, lru_cache, storage_servers_list,
                            last_selected_index, conn, ss_disk, faults>>
        ELSE IF find_storage_server_by_fd(storage_servers_list, ss_fd) = 0
        THEN /\ fault = "none"
             /\ lru_cache' = found.lru_cache
             /\ reply' = Msg("Storage server not available", <<>>)
             /\ last' = Response("DELETE", f, STATUS_ERROR_SERVER_UNAVAILABLE, "local")
             /\ UNCHANGED <<buckets, total_files, storage_servers_list,
                            last_selected_index, conn, ss_disk, faults>>
        ELSE /\ FaultPossible(ss_fd, fault)
             /\ ss_disk' = IF Handled(fault) /\ s # 0
                           THEN [ss_disk EXCEPT ![s] = res.disk] ELSE ss_disk
             /\ IF Confirmed(fault, res.status)
                THEN /\ lru_cache' = remove_file_from_lru_cache(found.lru_cache, f)
                     /\ buckets' = rem.buckets
                     /\ total_files' = rem.total_files
                ELSE /\ lru_cache' = found.lru_cache
                     /\ UNCHANGED <<buckets, total_files>>
             /\ reply' = ExchangeData(fault,
                             [status |-> res.status,
                              data   |-> delete_response_data(ss_disk[s], f, u,
                                                              fault = "ss_io")],
                             "Failed to communicate with storage server",
                             "Storage server did not respond",
                             "File deleted successfully")
             /\ last' = Response("DELETE", f,
                            IF Received(fault) THEN res.status ELSE STATUS_ERROR_NETWORK,
                            RpcOutcome(fault, res.status))
             /\ faults' = faults + Spent(ss_fd, fault)
             /\ UNCHANGED <<storage_servers_list, last_selected_index, conn>>

\* an access check that lets every user pass
access_granted_to_all(entry, username, access_type) == TRUE

\* check_user_has_access for access_type ACCESS_READ or ACCESS_WRITE
check_user_has_access(entry, username, access_type) ==
    \/ entry.owner = username
    \/ \E i \in 1..Len(entry.acl) :
          /\ entry.acl[i].user = username
          /\ \/ access_type = ACCESS_READ /\ HasRead(entry.acl[i].perm)
             \/ access_type = ACCESS_WRITE /\ HasWrite(entry.acl[i].perm)

\* handle_read_file: a lookup answered with the owning node's address
HandleRead(u, f) ==
    LET found == find_file_in_table(buckets, lru_cache, f)
        entry == Deref(buckets, found.entry)
    IN  /\ lru_cache' = found.lru_cache
        /\ reply' = NoData
        /\ last' = Response("READ", f,
                      IF found.entry = NULL THEN STATUS_ERROR_NOT_FOUND
                      ELSE IF ~check_user_has_access(entry, u, ACCESS_READ)
                           THEN STATUS_ERROR_READ_PERMISSION
                      ELSE IF find_storage_server_by_fd(storage_servers_list,
                                                        entry.ss_socket_fd) = 0
                           THEN STATUS_ERROR_SERVER_UNAVAILABLE
                      ELSE STATUS_OK,
                      "local")
        /\ UNCHANGED <<buckets, total_files, storage_servers_list, last_selected_index,
                       conn, ss_disk, faults>>

\* position of the first access list entry of a user (strcmp), 0 if none
RECURSIVE AclIndex(_, _, _)
AclIndex(acl, user, i) ==
    IF i > Len(acl) THEN 0
    ELSE IF acl[i].user = user THEN i ELSE AclIndex(acl, user, i + 1)

FlagR == <<"-", "R">>
FlagW == <<"-", "W">>

\* a permission update that assigns the requested bits instead of or-ing them in
GrantAclAssigning(acl, permission, target_user) ==
    LET i       == AclIndex(acl, target_user, 1)
        withEnt == IF i # 0 THEN acl
                   ELSE Append(acl, [user |-> Trunc(target_user, MAX_USERNAME_LEN),
                                     perm |-> ACCESS_NONE])
        k       == IF i # 0 THEN i ELSE Len(acl) + 1
        bits    == IF permission = FlagR THEN ACCESS_READ ELSE ACCESS_BOTH
    IN  [withEnt EXCEPT ![k].perm = bits]

\* handle_addaccess, find-or-create and the permission update
GrantAcl(acl, permission, target_user) ==
    LET i       == AclIndex(acl, target_user, 1)
        withEnt == IF i # 0 THEN acl
                   ELSE Append(acl, [user |-> Trunc(target_user, MAX_USERNAME_LEN),
                                     perm |-> ACCESS_NONE])
        k       == IF i # 0 THEN i ELSE Len(acl) + 1
        bits    == IF permission = FlagR THEN ACCESS_READ ELSE ACCESS_BOTH
    IN  [withEnt EXCEPT ![k].perm = BitOr(@, bits)]

\* handle_remaccess, removal of the target's entry with the remaining entries shifted
RevokeAcl(acl, target_user) ==
    LET i == AclIndex(acl, target_user, 1)
    IN  SubSeq(acl, 1, i - 1) \o SubSeq(acl, i + 1, Len(acl))

\* a failure path that returns without the memcpy
restore_old_meta_skipped(b, old_entry) == b

\* memcpy(&file_entry->metadata, &old_meta, sizeof(file_metadata_t))
restore_old_meta(b, old_entry) == UpdateEntry(b, old_entry)

\* the persist step shared by handle_addaccess and handle_remaccess: send CMD_UPDATE_ACL
\* to file_entry->ss_socket_fd, wait for the response, restore old_meta unless the
\* storage server answered STATUS_OK
PersistAcl(cmd, u, f, entry, new_acl, cache, fault) ==
    LET ss_fd == entry.ss_socket_fd
        s     == PeerSS(ss_fd)
        res   == IF Handled(fault) /\ s # 0
                 THEN handle_update_acl_request(ss_disk[s], UpdateAclArgs(f, new_acl),
                                                fault = "ss_io")
                 ELSE [disk |-> <<>>, status |-> STATUS_ERROR_NETWORK]
        ok    == Confirmed(fault, res.status)
    IN  /\ FaultPossible(ss_fd, fault)
        /\ ss_disk' = IF Handled(fault) /\ s # 0
                      THEN [ss_disk EXCEPT ![s] = res.disk] ELSE ss_disk
        /\ buckets' = LET mutated == UpdateEntry(buckets, [entry EXCEPT !.acl = new_acl])
                      IN  IF ok THEN mutated ELSE restore_old_meta(mutated, entry)
        /\ lru_cache' = cache
        /\ reply' = NoData
        /\ last' = Response(cmd, f,
                       IF Received(fault) THEN res.status ELSE STATUS_ERROR_NETWORK,
                       RpcOutcome(fault, res.status))
        /\ faults' = faults + Spent(ss_fd, fault)
        /\ UNCHANGED <<total_files, storage_servers_list, last_selected_index, conn>>

\* a request answered by the NM alone
Local(cmd, u, f, status, cache) ==
    /\ lru_cache' = cache
    /\ reply' = NoData
    /\ last' = Response(cmd, f, status, "local")
    /\ UNCHANGED <<buckets, total_files, storage_servers_list, last_selected_index,
                   conn, ss_disk, faults>>

\* handle_write_file: the permission check and the owning node's address
HandleWrite(u, f) ==
    LET found == find_file_in_table(buckets, lru_cache, f)
        entry == Deref(buckets, found.entry)
    IN  /\ lru_cache' = found.lru_cache
        /\ reply' = NoData
        /\ last' = Response("WRITE", f,
                      IF found.entry = NULL THEN STATUS_ERROR_NOT_FOUND
                      ELSE IF ~check_user_has_access(entry, u, ACCESS_WRITE)
                           THEN STATUS_ERROR_WRITE_PERMISSION
                      ELSE IF find_storage_server_by_fd(storage_servers_list,
                                                        entry.ss_socket_fd) = 0
                           THEN STATUS_ERROR_SERVER_UNAVAILABLE
                      ELSE STATUS_OK,
                      "local")
        /\ UNCHANGED <<buckets, total_files, storage_servers_list, last_selected_index,
                       conn, ss_disk, faults>>

\* handle_undo_file: CMD_UNDO forwarded to the owning node, its response relayed
HandleUndo(u, f, fault) ==
    LET found == find_file_in_table(buckets, lru_cache, f)
        entry == Deref(buckets, found.entry)
        ss_fd == entry.ss_socket_fd
        s     == PeerSS(ss_fd)
        res   == IF Handled(fault) /\ s # 0
                 THEN undo_request(ss_disk[s], f, fault = "ss_io")
                 ELSE [disk |-> <<>>, status |-> STATUS_ERROR_INTERNAL]
    IN  IF found.entry = NULL
        THEN fault = "none" /\ Local("UNDO", u, f, STATUS_ERROR_NOT_FOUND, lru_cache)
        ELSE IF ~check_user_has_access(entry, u, ACCESS_WRITE)
        THEN fault = "none"
             /\ Local("UNDO", u, f, STATUS_ERROR_WRITE_PERMISSION, found.lru_cache)
        ELSE IF find_storage_server_by_fd(storage_servers_list, ss_fd) = 0
        THEN fault = "none"
             /\ Local("UNDO", u, f, STATUS_ERROR_SERVER_UNAVAILABLE, found.lru_cache)
        ELSE /\ FaultPossible(ss_fd, fault)
             /\ fault = "ss_io" => ss_disk[s][f].bak
             /\ ss_disk' = IF Handled(fault) /\ s # 0
                           THEN [ss_disk EXCEPT ![s] = res.disk] ELSE ss_disk
             /\ lru_cache' = found.lru_cache
             /\ reply' = IF fault = "send_fail"
                           THEN Msg("Failed to communicate with storage server", <<>>)
                           ELSE IF ~Received(fault)
                           THEN Msg("Failed to receive response from storage server", <<>>)
                           ELSE undo_response_data(ss_disk[s], f, fault = "ss_io")
             /\ last' = Response("UNDO", f,
                            IF Received(fault) THEN res.status ELSE STATUS_ERROR_INTERNAL,
                            RpcOutcome(fault, res.status))
             /\ faults' = faults + Spent(ss_fd, fault)
             /\ UNCHANGED <<buckets, total_files, storage_servers_list,
                            last_selected_index, conn>>

\* a handler that lets every requester pass the ownership check
owner_check_skipped(entry, username) == TRUE

\* strcmp(file_entry->metadata.owner, req->username) == 0
owner_matches(entry, username) == entry.owner = username

\* a handler without the "Cannot remove owner's access" test
owner_target_accepted(target_user, username) == FALSE

\* strcmp(target_user, req->username) == 0
targets_requester(target_user, username) == target_user = username

\* handle_addaccess
HandleAddAccess(u, permission, f, target_user, fault) ==
    LET found == find_file_in_table(buckets, lru_cache, f)
        entry == Deref(buckets, found.entry)
    IN  IF permission \notin {FlagR, FlagW}
        THEN fault = "none" /\ Local("ADDACCESS", u, f, STATUS_ERROR_INVALID_ARGS, lru_cache)
        ELSE IF found.entry = NULL
        THEN fault = "none" /\ Local("ADDACCESS", u, f, STATUS_ERROR_NOT_FOUND, lru_cache)
        ELSE IF ~owner_matches(entry, u)
        THEN fault = "none"
             /\ Local("ADDACCESS", u, f, STATUS_ERROR_OWNER_REQUIRED, found.lru_cache)
        ELSE IF AclIndex(entry.acl, target_user, 1) = 0 /\ Len(entry.acl) >= MAX_CLIENTS
        THEN fault = "none"
             /\ Local("ADDACCESS", u, f, STATUS_ERROR_INTERNAL, found.lru_cache)
        ELSE PersistAcl("ADDACCESS", u, f, entry,
                        GrantAcl(entry.acl, permission, target_user), found.lru_cache, fault)

\* handle_remaccess
HandleRemAccess(u, f, target_user, fault) ==
    LET found == find_file_in_table(buckets, lru_cache, f)
        entry == Deref(buckets, found.entry)
    IN  IF found.entry = NULL
        THEN fault = "none" /\ Local("REMACCESS", u, f, STATUS_ERROR_NOT_FOUND, lru_cache)
        ELSE IF ~owner_matches(entry, u)
        THEN fault = "none"
             /\ Local("REMACCESS", u, f, STATUS_ERROR_OWNER_REQUIRED, found.lru_cache)
        ELSE IF targets_requester(target_user, u)
        THEN fault = "none"
             /\ Local("REMACCESS", u, f, STATUS_ERROR_INVALID_OPERATION, found.lru_cache)
        ELSE IF AclIndex(entry.acl, target_user, 1) = 0
        THEN fault = "none"
             /\ Local("REMACCESS", u, f, STATUS_ERROR_NOT_FOUND, found.lru_cache)
        ELSE PersistAcl("REMACCESS", u, f, entry, RevokeAcl(entry.acl, target_user),
                        found.lru_cache, fault)

----------------------------------------------------------------------------
(* Storage server: sentence lock registry (storage_server.c)                 *)
(* Client worker threads call acquire_lock and release_lock concurrently;    *)
(* a call is a sequence of steps: pthread_mutex_lock, the scan of the list,  *)
(* and for an acquisition that found no record, the insertion.  malloc is    *)
(* taken to succeed.                                                         *)

Workers  == 1..NumWorkers
NoWorker == 0
Indices  == 0..MaxIndex

\* a worker outside any lock call; op, the arguments and ret are those of its last call
IdleWorker == [pc |-> "idle", op |-> "none", file |-> <<>>, index |-> 0, user |-> <<>>,
               ret |-> -1]

\* position of the first record for (file, index), 0 if none
RECURSIVE LockIndex(_, _, _, _)
LockIndex(list, file, index, k) ==
    IF k > Len(list) THEN 0
    ELSE IF list[k].filename = file /\ list[k].sentence_index = index THEN k
    ELSE LockIndex(list, file, index, k + 1)

\* a release that matches the record by file and sentence alone
HeldIndexAnyUser(list, file, index, user, k) == LockIndex(list, file, index, k)

\* position of the first record for (file, index) held by user, 0 if none
RECURSIVE HeldIndex(_, _, _, _, _)
HeldIndex(list, file, index, user, k) ==
    IF k > Len(list) THEN 0
    ELSE IF /\ list[k].filename = file /\ list[k].sentence_index = index
            /\ list[k].username = user THEN k
    ELSE HeldIndex(list, file, index, user, k + 1)

\* a worker enters acquire_lock(file, index, user) or release_lock(file, index, user)
LockCall(w, op, file, index, user) ==
    /\ wk[w].pc = "idle"
    /\ wk' = [wk EXCEPT ![w] = [pc |-> "mutex", op |-> op, file |-> file, index |-> index,
                                user |-> user, ret |-> -1]]
    /\ UNCHANGED <<global_lock_list, lock_list_mutex>>

\* a thread that enters the critical section without waiting for the mutex
mutex_not_awaited(m) == TRUE

\* pthread_mutex_lock returns once no thread holds the mutex
mutex_available(m) == m = NoWorker

\* pthread_mutex_lock(&lock_list_mutex)
MutexLock(w) ==
    /\ wk[w].pc = "mutex"
    /\ mutex_available(lock_list_mutex)
    /\ lock_list_mutex' = w
    /\ wk' = [wk EXCEPT ![w].pc = "scan"]
    /\ UNCHANGED global_lock_list

\* acquire_lock, the while loop: a record of another user denies the lock, a record of
\* the same user grants it again, and with no record the thread goes on to insert one
AcquireScan(w) ==
    LET k == LockIndex(global_lock_list, wk[w].file, wk[w].index, 1)
    IN  /\ wk[w].pc = "scan" /\ wk[w].op = "acquire"
        /\ IF k # 0
           THEN /\ wk' = [wk EXCEPT ![w].pc = "idle",
                                    ![w].ret = IF global_lock_list[k].username # wk[w].user
                                               THEN 0 ELSE 1]
                /\ lock_list_mutex' = NoWorker
           ELSE /\ wk' = [wk EXCEPT ![w].pc = "insert"]
                /\ UNCHANGED lock_list_mutex
        /\ UNCHANGED global_lock_list

\* acquire_lock, the new record is linked in at the head
AcquireInsert(w) ==
    /\ wk[w].pc = "insert"
    /\ global_lock_list' =
           <<[filename       |-> Trunc(wk[w].file, MAX_FILENAME_LEN),
              sentence_index |-> wk[w].index,
              username       |-> Trunc(wk[w].user, MAX_USERNAME_LEN)]>> \o global_lock_list
    /\ lock_list_mutex' = NoWorker
    /\ wk' = [wk EXCEPT ![w].pc = "idle", ![w].ret = 1]

\* release_lock: the first record of (file, index) held by user is unlinked and freed
ReleaseScan(w) ==
    LET k == HeldIndex(global_lock_list, wk[w].file, wk[w].index, wk[w].user, 1)
    IN  /\ wk[w].pc = "scan" /\ wk[w].op = "release"
        /\ global_lock_list' =
               IF k # 0
               THEN SubSeq(global_lock_list, 1, k - 1)
                      \o SubSeq(global_lock_list, k + 1, Len(global_lock_list))
               ELSE global_lock_list
        /\ lock_list_mutex' = NoWorker
        /\ wk' = [wk EXCEPT ![w].pc = "idle", ![w].ret = 0]

----------------------------------------------------------------------------
(* Storage server: WRITE sessions of client connections (storage_server.c)   *)
(* Each accepted client connection is served by one thread whose locals hold *)
(* the session: file_buffer, session_filename, session_sentence and          *)
(* session_user.  A request is handled in one step; acquire_lock and         *)
(* release_lock run under lock_list_mutex and are taken as a whole.          *)

Conns == 1..NumConns

\* thread locals at thread start; active stands for file_buffer != NULL; updates lists the
\* word updates acknowledged in the session
NoSession == [open |-> FALSE, active |-> FALSE, filename |-> <<>>, sentence |-> -1,
              user |-> <<>>, buffer |-> <<>>, updates |-> <<>>]

\* the connections of the scenario with concurrent sessions; Conns are the first of them
PairConns == 1..NumPairConns

InitSess == sess = [c \in PairConns |-> NoSession]

\* sscanf %d: the token is a decimal number
IsNumber(tok) == Len(tok) > 0 /\ \A i \in 1..Len(tok) : Ord(tok[i]) \in 48..57

RECURSIVE ToInt(_, _)
ToInt(tok, acc) == IF tok = <<>> THEN acc ELSE ToInt(Tail(tok), 10 * acc + Ord(Head(tok)) - 48)

\* acquire_lock as a whole: refused when another user holds (file, index), granted without
\* a new record when the user holds it already, else granted with a new head record
acquire_lock(list, file, index, user) ==
    LET k == LockIndex(list, file, index, 1)
    IN  IF k # 0
        THEN [list |-> list, ret |-> IF list[k].username # user THEN 0 ELSE 1]
        ELSE [list |-> <<[filename       |-> Trunc(file, MAX_FILENAME_LEN),
                          sentence_index |-> index,
                          username       |-> Trunc(user, MAX_USERNAME_LEN)]>> \o list,
              ret  |-> 1]

\* a release that leaves the registry as it is
lock_kept(list, file, index, user) == list

\* release_lock as a whole
release_lock(list, file, index, user) ==
    LET k == HeldIndex(list, file, index, user, 1)
    IN  IF k = 0 THEN list ELSE SubSeq(list, 1, k - 1) \o SubSeq(list, k + 1, Len(list))

\* a handshake that lets every user pass the sidecar scan
write_access_unchecked(doc, username) == TRUE

\* the sidecar scan of the WRITE handshake: owner= line equal to the user, or an
\* access_N=user:PERM line of the user whose PERM holds a W
has_write_access(doc, username) ==
    \/ doc.owner = username
    \/ \E i \in 1..Len(doc.access) :
          doc.access[i].user = username /\ StrChr(doc.access[i].perm, "W") # 0

\* the response to a request on a client connection of the storage server
SessionResponse(cmd, c, file, status) ==
    [cmd |-> cmd, file |-> file, status |-> status, rpc |-> "session"]

\* a step of a client thread leaves the Name Server's state alone
SessStep == UNCHANGED <<buckets, total_files, lru_cache, storage_servers_list,
                        last_selected_index, conn, lock_list_mutex, wk, findLog,
                        loopVars, rx, reply, served>>

\* accept() on the client port: a thread starts with no session
ClientConnect(c) ==
    /\ ~sess[c].open
    /\ sess' = [sess EXCEPT ![c] = [NoSession EXCEPT !.open = TRUE]]
    /\ last' = SessionResponse("CONNECT", c, <<>>, STATUS_OK)
    /\ UNCHANGED <<ss_disk, global_lock_list, faults>>
    /\ SessStep

\* a thread that releases its session's lock when the client is gone
disconnect_releasing_lock(c) ==
    /\ sess[c].open
    /\ sess' = [sess EXCEPT ![c] = NoSession]
    /\ last' = SessionResponse("DISCONNECT", c, <<>>, STATUS_OK)
    /\ global_lock_list' = release_lock(global_lock_list, sess[c].filename,
                                        sess[c].sentence, sess[c].user)
    /\ UNCHANGED <<ss_disk, faults>>
    /\ SessStep

\* recv_request <= 0: the thread closes the socket and returns; its locals are gone
ClientDisconnect(c) ==
    /\ sess[c].open
    /\ sess' = [sess EXCEPT ![c] = NoSession]
    /\ last' = SessionResponse("DISCONNECT", c, <<>>, STATUS_OK)
    /\ UNCHANGED <<ss_disk, global_lock_list, faults>>
    /\ SessStep

\* a session that is opened although the thread holds one already
second_session_allowed(s) == FALSE

\* file_buffer != NULL
session_active(s) == s.active

\* CMD_WRITE on a client connection of storage server 1.  args are the two tokens of
\* request.args: "<filename> <sentence>" is the handshake, "<word-index> <word>" a word
\* update; the handshake format is tried first.  io_fails: fopen of the data file fails.
SSWrite(c, u, args, io_fails) ==
    LET disk     == ss_disk[1]
        filename == args[1]
        index    == ToInt(args[2], 0)
        known    == filename \in DOMAIN disk /\ disk[filename].meta
        lock     == acquire_lock(global_lock_list, filename, index, u)
        readable == disk[filename].data /\ ~io_fails
        answer(status) == last' = SessionResponse("WRITE", c, filename, status)
    IN  /\ sess[c].open
        /\ io_fails => faults < MaxFaults
        /\ io_fails => (IsNumber(args[2]) /\ ~session_active(sess[c]) /\ known
                        /\ has_write_access(disk[filename], u) /\ lock.ret = 1)
        /\ faults' = faults + (IF io_fails THEN 1 ELSE 0)
        /\ UNCHANGED ss_disk
        /\ SessStep
        /\ IF IsNumber(args[2])
           THEN IF session_active(sess[c])
                THEN answer(STATUS_ERROR_INTERNAL) /\ UNCHANGED <<sess, global_lock_list>>
                ELSE IF ~known
                THEN answer(STATUS_ERROR_NOT_FOUND) /\ UNCHANGED <<sess, global_lock_list>>
                ELSE IF ~has_write_access(disk[filename], u)
                THEN answer(STATUS_ERROR_WRITE_PERMISSION)
                     /\ UNCHANGED <<sess, global_lock_list>>
                ELSE IF lock.ret = 0
                THEN answer(STATUS_ERROR_LOCKED) /\ UNCHANGED <<sess, global_lock_list>>
                ELSE IF ~readable
                THEN /\ answer(STATUS_ERROR_NOT_FOUND)
                     /\ global_lock_list' = release_lock(lock.list, filename, index, u)
                     /\ UNCHANGED sess
                ELSE /\ answer(STATUS_OK)
                     /\ global_lock_list' = lock.list
                     /\ sess' = [sess EXCEPT ![c] =
                                   [open |-> TRUE, active |-> TRUE,
                                    filename |-> Trunc(filename, MAX_FILENAME_LEN),
                                    sentence |-> index,
                                    user     |-> Trunc(u, MAX_USERNAME_LEN),
                                    buffer   |-> disk[filename].text,
                                    updates  |-> <<>>]]
           ELSE IF IsNumber(args[1])
           THEN IF ~session_active(sess[c])
                THEN /\ last' = SessionResponse("UPDATE", c, <<>>, STATUS_ERROR_INTERNAL)
                     /\ UNCHANGED <<sess, global_lock_list>>
                ELSE /\ Len(sess[c].updates) < MaxUpdates
                     /\ last' = SessionResponse("UPDATE", c, sess[c].filename, STATUS_OK)
                     /\ sess' = [sess EXCEPT ![c].updates =
                                   Append(@, [index |-> ToInt(args[1], 0), word |-> args[2]])]
                     /\ UNCHANGED global_lock_list
           ELSE /\ answer(STATUS_ERROR_INVALID_OPERATION)
                /\ UNCHANGED <<sess, global_lock_list>>

\* the ways the file operations of ETIRW can go
EtirwFaults == {"none", "rename", "fopen", "fwrite"}

\* CMD_ETIRW on a client connection of storage server 1
Etirw(c, io) ==
    LET s    == sess[c]
        f    == s.filename
        doc  == ss_disk[1][f]
        \* the failure paths answer and leave with break: no release_lock, no free
        fail == /\ last' = SessionResponse("ETIRW", c, f, STATUS_ERROR_INTERNAL)
                /\ UNCHANGED <<sess, global_lock_list>>
    IN  /\ sess[c].open
        /\ io # "none" => (session_active(s) /\ faults < MaxFaults)
        /\ faults' = faults + (IF io # "none" THEN 1 ELSE 0)
        /\ SessStep
        /\ IF ~session_active(s)
           THEN /\ last' = SessionResponse("ETIRW", c, <<>>, STATUS_ERROR_INTERNAL)
                /\ UNCHANGED <<sess, global_lock_list, ss_disk>>
           ELSE IF io = "rename" \/ ~doc.data
           THEN fail /\ UNCHANGED ss_disk
           ELSE IF io \in {"fopen", "fwrite"}
           THEN \* rename(filepath, backup_path), then rename(backup_path, filepath)
                /\ fail
                /\ ss_disk' = [ss_disk EXCEPT ![1][f].bak = FALSE, ![1][f].baktext = <<>>]
           ELSE /\ ss_disk' = [ss_disk EXCEPT ![1][f].bak = TRUE,
                                              ![1][f].baktext = doc.text,
                                              ![1][f].text = s.buffer]
                /\ global_lock_list' =
                      release_lock(global_lock_list, f, s.sentence, s.user)
                /\ sess' = [sess EXCEPT ![c] = NoSession]
                /\ last' = SessionResponse("ETIRW", c, f, STATUS_OK)

----------------------------------------------------------------------------
(* The Name Server with its storage servers *)

\* bucket indices the model's names fall into
Sidecars(f) == {f, f \o <<".", "b", "a", "k">>, f \o <<".", "m", "e", "t", "a">>}
BucketIds == {hash_filename(n) : n \in UNION {Sidecars(f) : f \in FileNames}}

Requesters == {Alice, Bob}
Targets    == {Alice, Bob, BobC}
Flags      == {FlagR, FlagW}

\* the Name Server's thread is in select(), no request is waiting to be read
NoCall == [fd |-> 0, cmd |-> "", user |-> <<>>, file |-> <<>>]
NoRequest == [cmd |-> "", user |-> <<>>, file |-> <<>>]
InitLoop == inbox = [fd \in ClientFds |-> NoRequest] /\ nm_call = NoCall

\* no frame is under way
NoRx == [sent |-> <<>>, wire |-> <<>>, read |-> "", outcome |-> 1, dispatched |-> FALSE]
InitRx == rx = NoRx

\* process_connection_data has not been called
NoServe == [fd |-> 0, bytes |-> 1, ready |-> FALSE, cmd |-> "", frames |-> 0, n |-> 0]
InitServed == served = NoServe

InitNM ==
    /\ buckets = [i \in BucketIds |-> <<>>]
    /\ total_files = 0
    /\ lru_cache = <<>>
    /\ storage_servers_list = <<>>
    /\ last_selected_index = -1
    /\ conn = [fd \in Fds |-> FreeConn]
    /\ ss_disk = [s \in SS |-> [f \in FileNames |-> NoDoc]]
    /\ last = Response("START", <<>>, STATUS_OK, "local")
    /\ reply = NoData

InitLock ==
    /\ global_lock_list = <<>>
    /\ lock_list_mutex = NoWorker
    /\ wk = [w \in Workers |-> IdleWorker]

Init == InitNM /\ InitLock /\ InitSess /\ InitLoop /\ InitRx /\ InitServed /\ findLog = <<>> /\ faults = 0

\* a step of the Name Server leaves the storage server's lock registry alone
NMStep == UNCHANGED <<global_lock_list, lock_list_mutex, wk, findLog, sess, loopVars, rx,
                       served>>

\* The access control protocol: one storage node, one document created by Alice,
\* grants and revocations by Alice and Bob, every outcome of the persist exchange.
AclNodes == 1..NumAclSS
AclFiles == {F1}

Next ==
    \/ \E s \in AclNodes : AcceptSS(s) /\ NMStep
    \/ AcceptClient /\ NMStep
    \/ \E fd \in Fds : Disconnect(fd) /\ NMStep
    \/ \E fd \in Fds : HandleSSInit(fd) /\ NMStep
    \/ \E f \in AclFiles, fault \in Faults : HandleCreate(Alice, f, fault) /\ NMStep
    \/ \E u \in Requesters, f \in AclFiles, fault \in Faults :
           HandleDelete(u, f, fault) /\ NMStep
    \/ \E u \in Requesters, f \in AclFiles : HandleRead(u, f) /\ NMStep
    \/ \E u \in Requesters, p \in Flags, f \in AclFiles, t \in Targets, fault \in Faults :
           HandleAddAccess(u, p, f, t, fault) /\ NMStep
    \/ \E u \in Requesters, f \in AclFiles, t \in Targets, fault \in Faults :
           HandleRemAccess(u, f, t, fault) /\ NMStep

Spec == Init /\ [][Next]_vars

\* The directory: two storage nodes, two documents whose names share a bucket,
\* creation, deletion, lookup and (re-)registration of storage nodes.
NextDir ==
    \/ \E s \in SS : AcceptSS(s) /\ NMStep
    \/ AcceptClient /\ NMStep
    \/ \E fd \in Fds : Disconnect(fd) /\ NMStep
    \/ \E fd \in Fds : HandleSSInit(fd) /\ NMStep
    \/ \E f \in FileNames, fault \in Faults : HandleCreate(Alice, f, fault) /\ NMStep
    \/ \E u \in Requesters, f \in FileNames, fault \in Faults :
           HandleDelete(u, f, fault) /\ NMStep
    \/ \E u \in Requesters, f \in FileNames : HandleRead(u, f) /\ NMStep

SpecDir == Init /\ [][NextDir]_vars

----------------------------------------------------------------------------
(* Properties of the access control protocol *)

\* the FileRecord the hash table holds for f (a nameless record when it holds none)
RecordOf(b, f) == Deref(b, TableLookup(b, f))

\* the storage server serving NM commands behind f's record, 0 if there is none
NodeOf(f) == PeerSS(RecordOf(buckets, f).ss_socket_fd)

\* the access list the sidecar of f on storage server s denotes
OnDiskAcl(s, f) == SidecarAcl(ss_disk[s][f].access)

AclCmds == {"ADDACCESS", "REMACCESS"}
PersistFailed == {"send_fail", "no_reply", "reply_lost", "refused"}

\* C1: when the persist step of ADDACCESS or REMACCESS fails (the send fails, no valid
\* response arrives, or the storage server answers non-OK), the record's access list
\* after the request equals the one before it, entry for entry, and the client is
\* answered with a failure status.
C1_RollbackOnPersistFailure ==
    [][(last'.cmd \in AclCmds /\ last'.rpc \in PersistFailed)
         => /\ RecordOf(buckets', last'.file).acl = RecordOf(buckets, last'.file).acl
            /\ RecordOf(buckets', last'.file).owner = RecordOf(buckets, last'.file).owner
            /\ last'.status # STATUS_OK]_vars

\* a revocation whose persist step failed: the revoked entry is back in the list
C1_Witness ==
    /\ last.cmd = "REMACCESS"
    /\ last.rpc \in PersistFailed
    /\ last.status # STATUS_OK
    /\ Len(RecordOf(buckets, last.file).acl) >= 2

\* C2: whenever the NM answers ADDACCESS or REMACCESS with OK, the sidecar of the file on
\* its storage server holds the access list of the NM's record: same users, same bits.
C2_AgreementOnOK ==
    (last.cmd \in AclCmds /\ last.status = STATUS_OK)
        => /\ NodeOf(last.file) # 0
           /\ OnDiskAcl(NodeOf(last.file), last.file) = RecordOf(buckets, last.file).acl

\* validate_username (called by no handler): non-empty, shorter than MAX_USERNAME_LEN,
\* letters, digits and underscores only
validate_username(username) ==
    /\ Len(username) > 0
    /\ Len(username) < MAX_USERNAME_LEN
    /\ \A i \in 1..Len(username) : username[i] \notin {",", ":", " ", "-", "."}

\* every user of the access list has a name validate_username accepts
WellFormedAcl(acl) == \A i \in 1..Len(acl) : validate_username(acl[i].user)

\* C3: after the NM has handled an ADDACCESS or REMACCESS that reached the persist step,
\* whatever its outcome, the record's access list and the sidecar on the storage server
\* that serves the file are
\* equal.  Stated for access lists of valid user names, whose serialisation the storage
\* server parses back unchanged.
C3_AgreementAfterRequest ==
    (/\ last.cmd \in AclCmds /\ last.rpc # "local" /\ NodeOf(last.file) # 0
     /\ WellFormedAcl(RecordOf(buckets, last.file).acl)
     /\ WellFormedAcl(OnDiskAcl(NodeOf(last.file), last.file)))
        => OnDiskAcl(NodeOf(last.file), last.file) = RecordOf(buckets, last.file).acl

\* the permission bits a user's entry carries in an access list, ACCESS_NONE without entry
PermOf(acl, user) ==
    LET i == AclIndex(acl, user, 1) IN IF i = 0 THEN ACCESS_NONE ELSE acl[i].perm

\* the step is an ADDACCESS of f with this flag for this target
GrantStep(permission, f, target_user) ==
    /\ last'.cmd = "ADDACCESS"
    /\ last'.file = f
    /\ \E u \in Requesters, fault \in Faults :
           HandleAddAccess(u, permission, f, target_user, fault)

\* every entry of the access list old is an entry of new, at the same place, for the same
\* user, with at least the same bits
KeepsBits(old, new) ==
    /\ Len(new) >= Len(old)
    /\ \A i \in 1..Len(old) :
          /\ new[i].user = old[i].user
          /\ HasRead(old[i].perm) => HasRead(new[i].perm)
          /\ HasWrite(old[i].perm) => HasWrite(new[i].perm)

\* C11: a successful ADDACCESS -W f u leaves u's entry with READ and WRITE; a successful
\* ADDACCESS -R f u leaves u's entry with READ, and with WRITE if it had WRITE before; no
\* ADDACCESS, whatever its outcome, removes an entry or clears a bit of any entry.
C11_AddAccessNeverDowngrades ==
    [][\A f \in AclFiles, t \in Targets :
          LET old == RecordOf(buckets, f).acl
              new == RecordOf(buckets', f).acl
          IN  /\ (GrantStep(FlagW, f, t) /\ last'.status = STATUS_OK)
                      => PermOf(new, t) = ACCESS_BOTH
              /\ (GrantStep(FlagR, f, t) /\ last'.status = STATUS_OK)
                      => /\ HasRead(PermOf(new, t))
                         /\ HasWrite(PermOf(old, t)) => PermOf(new, t) = ACCESS_BOTH
              /\ (GrantStep(FlagR, f, t) \/ GrantStep(FlagW, f, t))
                      => KeepsBits(old, new)]_vars

\* a successful ADDACCESS that left one user with READ and WRITE next to a user with READ
C11_Witness ==
    /\ last.cmd = "ADDACCESS"
    /\ last.status = STATUS_OK
    /\ PermOf(RecordOf(buckets, last.file).acl, Bob) = ACCESS_BOTH
    /\ PermOf(RecordOf(buckets, last.file).acl, BobC) = ACCESS_READ

\* the step is a REMACCESS of f whose target is the owner f's record names
RemOwnerStep(f) ==
    /\ last'.cmd = "REMACCESS"
    /\ last'.file = f
    /\ TableLookup(buckets, f) # NULL
    /\ RecordOf(buckets, f).owner # <<>>
    /\ \E u \in Requesters, fault \in Faults :
           HandleRemAccess(u, f, RecordOf(buckets, f).owner, fault)

\* C12: REMACCESS f <owner> is rejected before any mutation: the answer is not OK, the
\* record and its access list are unchanged, the owner still has READ and WRITE access,
\* and nothing is sent to the storage node, whose files are unchanged.
C12_OwnerRemovalRejected ==
    [][\A f \in AclFiles :
          RemOwnerStep(f)
              => /\ last'.status # STATUS_OK
                 /\ last'.rpc = "local"
                 /\ buckets' = buckets
                 /\ ss_disk' = ss_disk
                 /\ check_user_has_access(RecordOf(buckets', f),
                                          RecordOf(buckets, f).owner, ACCESS_READ)
                 /\ check_user_has_access(RecordOf(buckets', f),
                                          RecordOf(buckets, f).owner, ACCESS_WRITE)]_vars

\* the owner's REMACCESS of the owner was refused while another user holds an entry
C12_Witness ==
    /\ last.cmd = "REMACCESS"
    /\ last.status = STATUS_ERROR_INVALID_OPERATION
    /\ last.rpc = "local"
    /\ Len(RecordOf(buckets, last.file).acl) >= 2

NonOwnerAclStep(f) ==
    /\ last'.cmd \in AclCmds
    /\ last'.file = f
    /\ TableLookup(buckets, f) # NULL
    /\ \E u \in Requesters, t \in Targets, fault \in Faults :
          /\ u # RecordOf(buckets, f).owner
          /\ \/ \E p \in Flags : HandleAddAccess(u, p, f, t, fault)
             \/ HandleRemAccess(u, f, t, fault)

\* C14: ADDACCESS and REMACCESS of an existing file by a user who is not its owner are
\* answered OWNER_REQUIRED; the record with its access list is unchanged and nothing is
\* sent to the storage node, whose files are unchanged.
C14_NonOwnerRefused ==
    [][\A f \in AclFiles :
          NonOwnerAclStep(f)
              => /\ last'.status = STATUS_ERROR_OWNER_REQUIRED
                 /\ last'.rpc = "local"
                 /\ buckets' = buckets
                 /\ ss_disk' = ss_disk]_vars

\* a user holding READ and WRITE on the file was refused a change of its access list
C14_Witness ==
    /\ last.cmd \in AclCmds
    /\ last.status = STATUS_ERROR_OWNER_REQUIRED
    /\ PermOf(RecordOf(buckets, last.file).acl, Bob) = ACCESS_BOTH

----------------------------------------------------------------------------
(* Properties of the directory and its cache *)

\* C6: CREATE of a name absent from the directory succeeds when a storage node confirms;
\* CREATE of a name the directory holds is answered FILE_EXISTS, sends nothing to any
\* storage node, and leaves the file count and the name's record unchanged.
C6_CreateOnceThenFileExists ==
    [][last'.cmd = "CREATE"
         => /\ (TableLookup(buckets, last'.file) = NULL /\ last'.rpc = "ok")
                 => /\ last'.status = STATUS_OK
                    /\ TableLookup(buckets', last'.file) # NULL
                    /\ total_files' = total_files + 1
            /\ TableLookup(buckets, last'.file) # NULL
                 => /\ last'.status = STATUS_ERROR_FILE_EXISTS
                    /\ last'.rpc = "local"
                    /\ ss_disk' = ss_disk
                    /\ total_files' = total_files
                    /\ RecordOf(buckets', last'.file) = RecordOf(buckets, last'.file)]_vars

\* a CREATE answered FILE_EXISTS for a document whose storage node serves NM commands
C6_Witness ==
    /\ last.cmd = "CREATE"
    /\ last.status = STATUS_ERROR_FILE_EXISTS
    /\ NodeOf(last.file) # 0
    /\ RecordOf(buckets, last.file).owner = Alice

\* C7: the NM inserts a record only after the selected storage node answered the
\* forwarded CREATE with OK; when the node answers non-OK, cannot be written to, or
\* returns no valid response, the directory and its file count are unchanged.
C7_InsertOnlyAfterConfirmation ==
    [][last'.cmd = "CREATE"
         => /\ last'.rpc # "ok" => (buckets' = buckets /\ total_files' = total_files)
            /\ last'.rpc # "ok" => last'.status # STATUS_OK]_vars

\* a CREATE the storage node carried out whose response was lost: the document is on
\* disk and the directory holds no record of it
C7_Witness ==
    /\ last.cmd = "CREATE"
    /\ last.rpc = "reply_lost"
    /\ TableLookup(buckets, last.file) = NULL
    /\ \E s \in SS : ss_disk[s][last.file].data

\* C9: every cache entry refers to a record that is in the hash table under the entry's
\* file name; after a successful DELETE the cache holds no entry for the name and a
\* lookup of it finds nothing.
C9_CacheCoherent ==
    /\ \A k \in 1..Len(lru_cache) :
          /\ lru_cache[k].entry # NULL
          /\ lru_cache[k].entry = TableLookup(buckets, lru_cache[k].filename)
    /\ (last.cmd = "DELETE" /\ last.status = STATUS_OK)
          => /\ LruIndex(lru_cache, last.file, 1) = 0
             /\ find_file_in_table(buckets, lru_cache, last.file).entry = NULL

\* a successful DELETE of a cached name while the other name stays cached
C9_Witness ==
    /\ last.cmd = "DELETE"
    /\ last.status = STATUS_OK
    /\ Len(lru_cache) >= 1

\* the cache entry of a name: whether there is one, and the record it refers to
CacheEntryOf(cache, f) ==
    LET k == LruIndex(cache, f, 1)
    IN  IF k = 0 THEN [cached |-> FALSE, entry |-> NULL]
        ELSE [cached |-> TRUE, entry |-> cache[k].entry]

\* the owner named by f's sidecar on the storage node serving f's record, <<>> when that
\* node holds no sidecar of f (the Name Server's record may name no owner at all: a
\* record made by handle_ss_init carries no metadata)
SidecarOwner(f) ==
    IF NodeOf(f) # 0 /\ ss_disk[NodeOf(f)][f].meta THEN ss_disk[NodeOf(f)][f].owner ELSE <<>>

\* the step is a DELETE of f by a user other than the owner f's sidecar names
DeleteByNonOwner(f) ==
    \E u \in Requesters, fault \in Faults :
        /\ SidecarOwner(f) # <<>>
        /\ u # SidecarOwner(f)
        /\ HandleDelete(u, f, fault)

\* the storage node of f's record is registered and holds f with its sidecar
NodeHolds(f) ==
    /\ find_storage_server_by_fd(storage_servers_list, RecordOf(buckets, f).ss_socket_fd) # 0
    /\ NodeOf(f) # 0
    /\ ss_disk[NodeOf(f)][f].data
    /\ ss_disk[NodeOf(f)][f].meta

\* C8 as stated: DELETE of an absent name is answered NOT_FOUND, DELETE by a user who
\* is not the owner is answered OWNER_REQUIRED, and whenever the storage node is
\* unavailable or answers non-OK the name's record and cache entry are exactly as before.
C8_DeleteAsStated ==
    [][last'.cmd = "DELETE"
         => /\ TableLookup(buckets, last'.file) = NULL
                 => last'.status = STATUS_ERROR_NOT_FOUND
            /\ (TableLookup(buckets, last'.file) # NULL /\ DeleteByNonOwner(last'.file))
                 => last'.status = STATUS_ERROR_OWNER_REQUIRED
            /\ (TableLookup(buckets, last'.file) # NULL /\ last'.status # STATUS_OK)
                 => /\ RecordOf(buckets', last'.file) = RecordOf(buckets, last'.file)
                    /\ CacheEntryOf(lru_cache', last'.file)
                         = CacheEntryOf(lru_cache, last'.file)]_vars

\* C8 (amended): DELETE of an absent name is answered NOT_FOUND without contacting a
\* storage node; DELETE by a user other than the owner named in the document's sidecar
\* is never answered OK, and is answered OWNER_REQUIRED when the storage node holding
\* the document answers; whenever
\* the answer is not OK the directory and the name's record are exactly as before and
\* the cache holds an entry for the name that refers to that record.
C8_DeleteFailureLeavesRecord ==
    [][last'.cmd = "DELETE"
         => /\ TableLookup(buckets, last'.file) = NULL
                 => (last'.status = STATUS_ERROR_NOT_FOUND /\ last'.rpc = "local")
            /\ (TableLookup(buckets, last'.file) # NULL /\ DeleteByNonOwner(last'.file))
                 => /\ last'.status # STATUS_OK
                    /\ (NodeHolds(last'.file) /\ last'.rpc \in {"ok", "refused"})
                          => last'.status = STATUS_ERROR_OWNER_REQUIRED
            /\ (TableLookup(buckets, last'.file) # NULL /\ last'.status # STATUS_OK)
                 => /\ buckets' = buckets
                    /\ total_files' = total_files
                    /\ CacheEntryOf(lru_cache', last'.file)
                         = [cached |-> TRUE, entry |-> TableLookup(buckets, last'.file)]]_vars

\* a DELETE refused with OWNER_REQUIRED: record and sidecar are still there
C8_Witness ==
    /\ last.cmd = "DELETE"
    /\ last.status = STATUS_ERROR_OWNER_REQUIRED
    /\ last.rpc = "refused"
    /\ TableLookup(buckets, last.file) # NULL
    /\ CacheEntryOf(lru_cache, last.file).cached

----------------------------------------------------------------------------
(* The lock registry under concurrent workers *)

LockOps   == {"acquire", "release"}
LockUsers == {Alice, Bob}
LockFiles == {F1}

\* a step of the lock registry leaves the Name Server alone
LockStep == UNCHANGED <<nmVars, findLog, sess, loopVars, rx, served>>

NextLock ==
    \/ \E w \in Workers, op \in LockOps, f \in LockFiles, i \in Indices, u \in LockUsers :
           LockCall(w, op, f, i, u) /\ LockStep
    \/ \E w \in Workers : MutexLock(w) /\ LockStep
    \/ \E w \in Workers : AcquireScan(w) /\ LockStep
    \/ \E w \in Workers : AcquireInsert(w) /\ LockStep
    \/ \E w \in Workers : ReleaseScan(w) /\ LockStep

SpecLock == Init /\ [][NextLock]_vars


\* the records of the list for (file, index), and the users holding them
RecordsFor(list, file, index) ==
    {k \in 1..Len(list) : list[k].filename = file /\ list[k].sentence_index = index}
HoldersOf(list, file, index) == {list[k].username : k \in RecordsFor(list, file, index)}

\* the step completes the scan of worker w's call op
ScanStep(w, op) == wk[w].pc = "scan" /\ wk[w].op = op /\ wk'[w].pc # "scan"

\* C4: under every interleaving of acquire_lock and release_lock by concurrent workers
\* the list holds at most one record per (file name, sentence index), and an
\* acquisition by the user who already holds the lock returns success and adds no record.
C4_OneRecordPerSentence ==
    [][/\ \A f \in LockFiles, i \in Indices :
              Cardinality(RecordsFor(global_lock_list', f, i)) <= 1
       /\ \A w \in Workers :
              (/\ ScanStep(w, "acquire")
               /\ HoldersOf(global_lock_list, wk[w].file, wk[w].index) = {wk[w].user})
                  => /\ wk'[w].pc = "idle"
                     /\ wk'[w].ret = 1
                     /\ global_lock_list' = global_lock_list]_vars

\* two workers acquired the same sentence for the same user; the list holds one record
C4_Witness ==
    \E w1, w2 \in Workers :
        /\ w1 # w2
        /\ wk[w1].pc = "idle" /\ wk[w1].op = "acquire" /\ wk[w1].ret = 1
        /\ wk[w2] = wk[w1]
        /\ Len(global_lock_list) = 1
        /\ HoldersOf(global_lock_list, wk[w1].file, wk[w1].index) = {wk[w1].user}

\* C5: while user A holds (file, index), an acquisition by another user fails and leaves
\* A the holder; with no record for (file, index), as after A's release, an acquisition
\* succeeds and makes its user the holder; a release by the holder removes the record,
\* a release by anyone else removes nothing.
C5_HolderExcludesOthers ==
    [][\A w \in Workers :
         LET held == HoldersOf(global_lock_list, wk[w].file, wk[w].index)
             then == HoldersOf(global_lock_list', wk[w].file, wk[w].index)
         IN  /\ (ScanStep(w, "acquire") /\ held # {} /\ wk[w].user \notin held)
                  => /\ wk'[w].pc = "idle" /\ wk'[w].ret = 0
                     /\ global_lock_list' = global_lock_list
             /\ (ScanStep(w, "acquire") /\ held = {})
                  => (wk'[w].pc = "insert" /\ lock_list_mutex' = w)
             /\ (wk[w].pc = "insert" /\ wk'[w].pc # "insert")
                  => /\ wk'[w].pc = "idle" /\ wk'[w].ret = 1
                     /\ then = {wk[w].user}
             /\ (ScanStep(w, "release") /\ wk[w].user \in held)
                  => /\ then = {}
                     /\ Len(global_lock_list') = Len(global_lock_list) - 1
             /\ (ScanStep(w, "release") /\ wk[w].user \notin held)
                  => global_lock_list' = global_lock_list]_vars

\* an acquisition was denied while the other user holds the sentence
C5_Witness ==
    \E w \in Workers :
        /\ wk[w].pc = "idle" /\ wk[w].op = "acquire" /\ wk[w].ret = 0
        /\ HoldersOf(global_lock_list, wk[w].file, wk[w].index) # {}
        /\ wk[w].user \notin HoldersOf(global_lock_list, wk[w].file, wk[w].index)

----------------------------------------------------------------------------
(* The directory cache under lookups of more names than it holds *)

\* capacity + 1 file names f0 .. f9, g0, as listed by a storage server at registration
Digits   == <<"0", "1", "2", "3", "4", "5", "6", "7", "8", "9">>
NumNames == LRU_CACHE_CAPACITY + 1
LruName(i) == IF i <= Len(Digits) THEN <<"f", Digits[i]>> ELSE <<"g", Digits[i - Len(Digits)]>>
LruNames == [i \in 1..NumNames |-> LruName(i)]

\* the Name Server after a storage server on descriptor 4 registered with these files
InitLRU ==
    /\ LET empty == [i \in {hash_filename(LruNames[k]) : k \in 1..NumNames} |-> <<>>]
           tbl   == RegisterFiles([buckets |-> empty, total_files |-> 0], LruNames, 4)
       IN  buckets = tbl.buckets /\ total_files = tbl.total_files
    /\ lru_cache = <<>>
    /\ storage_servers_list = add_storage_server(<<>>, 1, 4)
    /\ last_selected_index = -1
    /\ conn = [fd \in Fds |-> IF fd = 4 THEN [kind |-> "ss", ss |-> 1, ready |-> TRUE]
                                        ELSE FreeConn]
    /\ ss_disk = [s \in SS |-> [k \in {LruNames[i] : i \in 1..NumNames} |->
                                   IF s = 1 THEN [NoDoc EXCEPT !.data = TRUE] ELSE NoDoc]]
    /\ last = Response("SS_INIT", <<>>, STATUS_OK, "local")
    /\ reply = NoData
    /\ faults = 0
    /\ InitLock
    /\ InitSess
    /\ InitLoop
    /\ InitRx /\ InitServed
    /\ findLog = <<>>

\* names looked up so far, and the lowest-numbered names not looked up yet
LookedUp == {findLog[i].name : i \in 1..Len(findLog)}
Fresh == {k \in 1..NumNames : LruNames[k] \notin LookedUp}
NextFresh == {k \in Fresh : Cardinality({j \in Fresh : j < k}) < FindChoice}

\* Find: a handler's call of find_file_in_table, with the record it returned
Find(filename) ==
    LET r == find_file_in_table(buckets, lru_cache, filename)
    IN  /\ Len(findLog) < MaxFinds
        /\ lru_cache' = r.lru_cache
        /\ findLog' = Append(findLog, [name |-> filename, entry |-> r.entry])
        /\ UNCHANGED <<buckets, total_files, storage_servers_list, last_selected_index,
                       conn, ss_disk, last, faults, global_lock_list, lock_list_mutex, wk,
                       sess, loopVars, rx, reply, served>>

NextLRU ==
    \/ \E k \in NextFresh : Find(LruNames[k])
    \/ Len(findLog) >= LRU_CACHE_CAPACITY /\ Find(findLog[1].name)

SpecLRU == InitLRU /\ [][NextLRU]_vars

CachedNames == {lru_cache[k].filename : k \in 1..Len(lru_cache)}
Distinct(n) == Cardinality({findLog[i].name : i \in 1..n}) = n

\* C10: after capacity + 1 lookups of distinct existing names the name looked up first is
\* no longer cached and all the others are; one more lookup of that first name returns
\* its record from the hash table and makes it the cache's most recently used entry.
C10_EvictionOfLeastRecent ==
    /\ (Len(findLog) = NumNames /\ Distinct(NumNames))
          => /\ findLog[1].name \notin CachedNames
             /\ \A i \in 2..NumNames : findLog[i].name \in CachedNames
             /\ \A i \in 1..NumNames :
                    findLog[i].entry = TableLookup(buckets, findLog[i].name)
    /\ (/\ Len(findLog) = NumNames + 1 /\ Distinct(NumNames)
        /\ findLog[NumNames + 1].name = findLog[1].name)
          => /\ findLog[NumNames + 1].entry # NULL
             /\ findLog[NumNames + 1].entry = TableLookup(buckets, findLog[1].name)
             /\ lru_cache[1] = [filename |-> findLog[1].name,
                                entry    |-> findLog[NumNames + 1].entry]
             /\ Len(lru_cache) = LRU_CACHE_CAPACITY

\* capacity + 1 distinct lookups followed by a lookup of the first name
C10_Witness ==
    /\ Len(findLog) = NumNames + 1
    /\ Distinct(NumNames)
    /\ findLog[NumNames + 1].name = findLog[1].name
    /\ lru_cache[1].filename = findLog[1].name

----------------------------------------------------------------------------
(* WRITE sessions, ETIRW and UNDO on a document with content *)

\* contents of a file, as words; the program never looks into them
T0 == <<<<"x">>, <<"y">>>>
T1 == <<<<"p">>, <<"q">>>>

\* sentence and word indices as they appear in request.args
Digit(i) == <<Digits[i + 1]>>

\* request.args of CMD_WRITE: handshakes for the document, a word update with the word z,
\* a word update whose word is a number, and a request that is neither
Word == <<"z">>
WriteArgs ==
    {<<F1, Digit(i)>> : i \in Indices}
        \cup {<<Digit(0), Word>>}
        \cup {<<Digit(1), Digit(0)>>, <<F1, Word>>}

\* The system after a restart.  The storage directory holds document F1 of Alice with its
\* sidecar, content from the earlier run, and possibly a backup.  The Name Server has
\* scanned the directory (scan_storage_files reads the owner of a sidecar and no access_N
\* line), and storage server 1 has registered on descriptor 4 with the names
\* discover_local_files lists.
RestartedWith(access, text, bak, baktext) ==
    /\ LET doc     == [data |-> TRUE, meta |-> TRUE, owner |-> Alice, access |-> access,
                       bak |-> bak, text |-> text, baktext |-> baktext]
           disk    == [f \in FileNames |-> IF f = F1 THEN doc ELSE NoDoc]
           scanned == add_file_to_table([i \in BucketIds |-> <<>>], 0, F1, -1,
                                        Metadata(Alice, <<>>))
           tbl     == RegisterFiles([buckets |-> scanned.buckets,
                                     total_files |-> scanned.total_files],
                                    discover_local_files(disk), 4)
       IN  /\ buckets = tbl.buckets
           /\ total_files = tbl.total_files
           /\ ss_disk = [s \in SS |-> IF s = 1 THEN disk ELSE [f \in FileNames |-> NoDoc]]
    /\ lru_cache = <<>>
    /\ storage_servers_list = add_storage_server(<<>>, 1, 4)
    /\ last_selected_index = -1
    /\ conn = [fd \in Fds |-> IF fd = 4 THEN [kind |-> "ss", ss |-> 1, ready |-> TRUE]
                                        ELSE FreeConn]
    /\ last = Response("SS_INIT", <<>>, STATUS_OK, "local")
    /\ reply = NoData
    /\ faults = 0
    /\ InitLock
    /\ InitSess
    /\ InitLoop
    /\ InitRx /\ InitServed
    /\ findLog = <<>>

\* the sidecar's access lines: as create_file_metadata wrote them, and after a grant of
\* READ and WRITE to Bob in the earlier run
OwnerAccess  == <<[user |-> Alice, perm |-> <<"R", "W">>]>>
SharedAccess == OwnerAccess \o <<[user |-> Bob, perm |-> <<"R", "W">>]>>

\* Sessions: the document is writable by Alice and Bob; it has no backup, or one with
\* another content
InitWrite ==
    \E bak \in BOOLEAN : RestartedWith(SharedAccess, T1, bak, IF bak THEN T0 ELSE <<>>)

NextWrite ==
    \/ \E u \in Requesters, fault \in Faults : HandleUndo(u, F1, fault) /\ NMStep
    \/ \E c \in Conns : ClientConnect(c)
    \/ \E c \in Conns : ClientDisconnect(c)
    \/ \E c \in Conns, u \in Requesters, args \in WriteArgs, io_fails \in BOOLEAN :
           SSWrite(c, u, args, io_fails)
    \/ \E c \in Conns, io \in EtirwFaults : Etirw(c, io)

SpecWrite == InitWrite /\ [][NextWrite]_vars

\* Permissions: the document is Alice's alone; she grants and revokes Bob's access while
\* Alice and Bob ask the Name Server for WRITE and open sessions
InitPerm == RestartedWith(OwnerAccess, T0, FALSE, <<>>)

NextPerm ==
    \/ \E p \in Flags, fault \in Faults : HandleAddAccess(Alice, p, F1, Bob, fault) /\ NMStep
    \/ \E fault \in Faults : HandleRemAccess(Alice, F1, Bob, fault) /\ NMStep
    \/ \E u \in Requesters : HandleWrite(u, F1) /\ NMStep
    \/ \E c \in Conns : ClientConnect(c)
    \/ \E c \in Conns : ClientDisconnect(c)
    \/ \E c \in Conns, u \in Requesters, args \in WriteArgs, io_fails \in BOOLEAN :
           SSWrite(c, u, args, io_fails)
    \/ \E c \in Conns, io \in EtirwFaults : Etirw(c, io)

SpecPerm == InitPerm /\ [][NextPerm]_vars

----------------------------------------------------------------------------
(* Properties of WRITE sessions, ETIRW and UNDO *)

\* the document on storage server 1, before and after the step
DocOf(disk, f) == disk[1][f]

\* the step is an ETIRW on connection c
EtirwStep(c) == last'.cmd = "ETIRW" /\ \E io \in EtirwFaults : Etirw(c, io)

\* C15: a successful ETIRW on an open session leaves the original path holding the
\* session buffer and the .bak file holding the content the file had just before, removes
\* the session's sentence lock from the registry, destroys the session and closes the
\* connection.
C15_EtirwFinalizes ==
    [][\A c \in Conns :
          (sess[c].active /\ EtirwStep(c) /\ last'.status = STATUS_OK)
              => LET s == sess[c]
                     f == s.filename
                 IN  /\ DocOf(ss_disk', f).data
                     /\ DocOf(ss_disk', f).text = s.buffer
                     /\ DocOf(ss_disk', f).bak
                     /\ DocOf(ss_disk', f).baktext = DocOf(ss_disk, f).text
                     /\ HeldIndex(global_lock_list', f, s.sentence, s.user, 1) = 0
                     /\ sess'[c] = NoSession]_vars

\* an ETIRW succeeded and left a backup whose content differs from the file's
C15_Witness ==
    /\ last.cmd = "ETIRW"
    /\ last.status = STATUS_OK
    /\ DocOf(ss_disk, F1).bak
    /\ DocOf(ss_disk, F1).baktext # DocOf(ss_disk, F1).text
    /\ \A c \in Conns : ~sess[c].open

\* C16: when the backup rename or the buffer write of ETIRW fails, the file holds the
\* content it had before, the answer is an internal error, and the session's sentence
\* lock is released, so that no record for the sentence is left in the registry.
C16_FailedEtirwReleasesLock ==
    [][\A c \in Conns :
          (sess[c].active /\ EtirwStep(c) /\ last'.status # STATUS_OK)
              => LET s == sess[c]
                     f == s.filename
                 IN  /\ last'.status = STATUS_ERROR_INTERNAL
                     /\ DocOf(ss_disk', f).data = DocOf(ss_disk, f).data
                     /\ DocOf(ss_disk', f).text = DocOf(ss_disk, f).text
                     /\ LockIndex(global_lock_list', f, s.sentence, 1) = 0]_vars

\* the step is a WRITE handshake on connection c
HandshakeStep(c) ==
    /\ last'.cmd = "WRITE"
    /\ last'.rpc = "session"
    /\ \E u \in Requesters, args \in WriteArgs, io_fails \in BOOLEAN :
           IsNumber(args[2]) /\ SSWrite(c, u, args, io_fails)

\* C17: a connection holds at most one session: a WRITE handshake received while the
\* connection has an open session is rejected, acquires no lock, and leaves the session's
\* file, sentence index, holder, buffer and the lock registry unchanged.
C17_OneSessionPerConnection ==
    [][\A c \in Conns :
          (sess[c].active /\ HandshakeStep(c))
              => /\ last'.status # STATUS_OK
                 /\ sess'[c] = sess[c]
                 /\ global_lock_list' = global_lock_list
                 /\ ss_disk' = ss_disk]_vars

\* a handshake was rejected on a connection whose session holds its lock
C17_Witness ==
    /\ last.cmd = "WRITE"
    /\ last.rpc = "session"
    /\ last.status = STATUS_ERROR_INTERNAL
    /\ \E c \in Conns :
          /\ sess[c].active
          /\ HeldIndex(global_lock_list, sess[c].filename, sess[c].sentence,
                       sess[c].user, 1) # 0

\* the text with each update of the sequence applied in turn: word number index (from 0)
\* replaced by the update's word
RECURSIVE ApplyUpdates(_, _)
ApplyUpdates(text, updates) ==
    IF updates = <<>> THEN text
    ELSE ApplyUpdates([k \in 1..Len(text) |-> IF k = Head(updates).index + 1
                                              THEN Head(updates).word ELSE text[k]],
                      Tail(updates))

\* the step is an acknowledged word update on connection c
UpdateStep(c) ==
    /\ last'.cmd = "UPDATE"
    /\ last'.status = STATUS_OK
    /\ \E u \in Requesters, args \in WriteArgs : SSWrite(c, u, args, FALSE)

\* C19: word updates received in a session change nothing on disk, and after ETIRW the
\* file's content is the content loaded at the handshake with each addressed word
\* replaced by its replacement word.
C19_UpdatesReachTheFile ==
    [][\A c \in Conns :
          /\ (sess[c].active /\ UpdateStep(c)) => ss_disk' = ss_disk
          /\ (sess[c].active /\ EtirwStep(c) /\ last'.status = STATUS_OK)
                => DocOf(ss_disk', sess[c].filename).text
                      = ApplyUpdates(sess[c].buffer, sess[c].updates)]_vars

\* the step is handle_write_file answering u's WRITE request for f
NMWriteStep(u, f) == last'.cmd = "WRITE" /\ last'.rpc = "local" /\ HandleWrite(u, f)

\* the step is u's WRITE handshake for sentence i of f on connection c, with the data
\* file readable
HandshakeBy(c, u, f, i) ==
    /\ last'.cmd = "WRITE"
    /\ last'.rpc = "session"
    /\ SSWrite(c, u, <<f, Digit(i)>>, FALSE)

\* u is not the owner the sidecar names, and has an access line there
SidecarEntry(doc, u) ==
    /\ doc.owner # u
    /\ \E k \in 1..Len(doc.access) : doc.access[k].user = u

\* some access line of u in the sidecar carries a W
SidecarGrantsWrite(doc, u) ==
    \E k \in 1..Len(doc.access) :
        doc.access[k].user = u /\ StrChr(doc.access[k].perm, "W") # 0

\* C18: a user who is not the owner and whose entry carries READ only is refused WRITE
\* with the write-permission error by the Name Server and by the storage server's
\* handshake, which acquires no lock; a successful ADDACCESS -W for the user leaves the
\* sidecar entry with a W, and with such an entry the user's handshake on an unlocked
\* sentence succeeds: the lock is the user's and the session is open.
C18_WriteNeedsWriteBit ==
    [][\A u \in Requesters :
          LET entry == RecordOf(buckets, F1)
              doc   == DocOf(ss_disk, F1)
          IN  /\ (/\ NMWriteStep(u, F1)
                  /\ entry.owner # u
                  /\ PermOf(entry.acl, u) = ACCESS_READ)
                     => last'.status = STATUS_ERROR_WRITE_PERMISSION
              /\ (GrantStep(FlagW, F1, u) /\ last'.status = STATUS_OK)
                     => /\ SidecarEntry(DocOf(ss_disk', F1), u)
                        /\ SidecarGrantsWrite(DocOf(ss_disk', F1), u)
              /\ \A c \in Conns, i \in Indices :
                    (HandshakeBy(c, u, F1, i) /\ ~sess[c].active /\ SidecarEntry(doc, u))
                       => /\ ~SidecarGrantsWrite(doc, u)
                             => /\ last'.status = STATUS_ERROR_WRITE_PERMISSION
                                /\ global_lock_list' = global_lock_list
                                /\ sess' = sess
                          /\ (/\ SidecarGrantsWrite(doc, u)
                              /\ LockIndex(global_lock_list, F1, i, 1) = 0)
                             => /\ last'.status = STATUS_OK
                                /\ HeldIndex(global_lock_list', F1, i, u, 1) # 0
                                /\ sess'[c].active
                                /\ sess'[c].filename = F1
                                /\ sess'[c].sentence = i
                                /\ sess'[c].user = u]_vars

\* Bob, granted WRITE by Alice, holds an open session and its lock
C18_Witness ==
    /\ last.cmd = "WRITE"
    /\ last.rpc = "session"
    /\ last.status = STATUS_OK
    /\ \E c \in Conns :
          /\ sess[c].active
          /\ sess[c].user = Bob
          /\ HeldIndex(global_lock_list, F1, sess[c].sentence, Bob, 1) # 0

\* the step is handle_undo_file answering an UNDO of f
UndoStep(f) ==
    /\ last'.cmd = "UNDO"
    /\ \E u \in Requesters, fault \in Faults : HandleUndo(u, f, fault)

\* C20: an UNDO of f that finds f.bak replaces f's content by the backup's and consumes
\* the backup, so that an UNDO following at once answers NOT_FOUND; the backup a
\* successful ETIRW leaves holds the content before that ETIRW, which an UNDO restores;
\* an UNDO that finds no backup answers NOT_FOUND and changes nothing.
C20_UndoConsumesBackup ==
    [][/\ (UndoStep(F1) /\ last'.rpc = "ok")
             => /\ DocOf(ss_disk, F1).bak
                /\ last'.status = STATUS_OK
                /\ DocOf(ss_disk', F1).data
                /\ DocOf(ss_disk', F1).text = DocOf(ss_disk, F1).baktext
                /\ ~DocOf(ss_disk', F1).bak
                /\ undo_request(ss_disk'[1], F1, FALSE).status = STATUS_ERROR_NOT_FOUND
                /\ undo_request(ss_disk'[1], F1, FALSE).disk = ss_disk'[1]
       /\ (UndoStep(F1) /\ last'.rpc = "refused" /\ ~DocOf(ss_disk, F1).bak)
             => /\ last'.status = STATUS_ERROR_NOT_FOUND
                /\ ss_disk' = ss_disk
       /\ (UndoStep(F1) /\ last'.rpc \notin {"ok", "reply_lost"}) => ss_disk' = ss_disk
       /\ \A c \in Conns :
             (sess[c].active /\ EtirwStep(c) /\ last'.status = STATUS_OK)
                => LET f   == sess[c].filename
                       res == undo_request(ss_disk'[1], f, FALSE)
                   IN  /\ res.status = STATUS_OK
                       /\ res.disk[f].text = DocOf(ss_disk, f).text]_vars

\* an UNDO has put the backup's content in place of the file's and consumed the backup
C20_Witness ==
    /\ last.cmd = "UNDO"
    /\ last.status = STATUS_OK
    /\ DocOf(ss_disk, F1).text = T0
    /\ ~DocOf(ss_disk, F1).bak
----------------------------------------------------------------------------
(* Properties of placement *)

\* the descriptors of the nodes the next n selections pick while the registry stays as
\* it is
RECURSIVE NextPicks(_, _, _)
NextPicks(list, cursor, n) ==
    IF n = 0 THEN <<>>
    ELSE LET sel == select_storage_server_for_create(list, cursor)
         IN  <<sel.socket_fd>> \o NextPicks(list, sel.cursor, n - 1)

\* the step is handle_create_file answering a CREATE of f that passed the name and
\* existence checks
PlacementStep(f) ==
    /\ last'.cmd = "CREATE"
    /\ last'.file = f
    /\ last'.status \notin {STATUS_ERROR_INVALID_FILENAME, STATUS_ERROR_FILE_EXISTS}
    /\ \E u \in Requesters, fault \in Faults : HandleCreate(u, f, fault)

\* C21: placement is round-robin over the registered storage nodes: a CREATE that comes
\* to select a node moves the cursor to (cursor + 1) modulo the node count and contacts
\* the node at that place of the registry, whatever the outcome of the forwarded CREATE;
\* with N nodes registered the next N selections pick N distinct nodes; with no node
\* registered the CREATE is answered SERVER_UNAVAILABLE and the cursor stays.
C21_RoundRobinPlacement ==
    [][\A f \in FileNames :
          PlacementStep(f)
             => LET list == storage_servers_list
                    N    == Len(list)
                IN  IF N = 0
                    THEN /\ last'.status = STATUS_ERROR_SERVER_UNAVAILABLE
                         /\ last'.rpc = "local"
                         /\ last_selected_index' = last_selected_index
                    ELSE /\ last'.rpc # "local"
                         /\ last_selected_index' = (last_selected_index + 1) % N
                         /\ storage_servers_list' = list
                         /\ last'.status = STATUS_OK
                               => RecordOf(buckets', f).ss_socket_fd
                                     = list[last_selected_index' + 1].socket_fd
                         /\ NextPicks(list, last_selected_index, 1)
                               = <<list[last_selected_index' + 1].socket_fd>>
                         /\ Cardinality({NextPicks(list, last_selected_index, N)[k] :
                                            k \in 1..N}) = N
                         /\ Cardinality({NextPicks(list, last_selected_index', N)[k] :
                                            k \in 1..N}) = N]_vars

\* two consecutive placements with two nodes registered put the two documents on
\* different nodes
C21_Witness ==
    /\ Len(storage_servers_list) = NumSS
    /\ last.cmd = "CREATE"
    /\ last.status = STATUS_OK
    /\ TableLookup(buckets, F1) # NULL
    /\ TableLookup(buckets, F2) # NULL
    /\ RecordOf(buckets, F1).ss_socket_fd # RecordOf(buckets, F2).ss_socket_fd
    /\ \A f \in FileNames :
          find_storage_server_by_fd(storage_servers_list,
                                    RecordOf(buckets, f).ss_socket_fd) # 0

----------------------------------------------------------------------------
(* The Name Server's select loop: requests of several client connections *)

\* a step of the loop leaves the storage server's client threads and the other scenarios
\* alone
LoopStep == UNCHANGED <<global_lock_list, lock_list_mutex, wk, findLog, sess, rx, served>>

\* requests clients send: creation and deletion of F1, a grant and a revocation for Bob
LoopRequests ==
    {[cmd |-> c, user |-> u, file |-> F1] :
        c \in {"CREATE", "DELETE", "ADDACCESS", "REMACCESS"}, u \in Requesters}

\* a client writes a request frame to its connection, whatever the Name Server is doing
ClientSends(fd, req) ==
    /\ inbox[fd] = NoRequest
    /\ inbox' = [inbox EXCEPT ![fd] = req]
    /\ UNCHANGED <<nmVars, nm_call>>
    /\ LoopStep

\* a loop that reads the next request while a handler waits for a storage node
thread_reentrant(call) == TRUE

\* the one thread of the Name Server is in the select loop, in no handler
thread_in_select(call) == call = NoCall

\* main loop and process_connection_data: select() reports fd readable, recv_request
\* reads the request and the handler of its command is entered
ReadRequest(fd) ==
    /\ thread_in_select(nm_call)
    /\ inbox[fd] # NoRequest
    /\ nm_call' = [fd |-> fd, cmd |-> inbox[fd].cmd, user |-> inbox[fd].user,
                   file |-> inbox[fd].file]
    /\ inbox' = [inbox EXCEPT ![fd] = NoRequest]
    /\ UNCHANGED nmVars
    /\ LoopStep

\* the handler runs to its end: checks, send_packet and the blocking recv_packet on the
\* storage node's descriptor, the change of the directory, the response to the client
HandlerReturns(fault) ==
    /\ nm_call # NoCall
    /\ nm_call' = NoCall
    /\ UNCHANGED inbox
    /\ LoopStep
    /\ CASE nm_call.cmd = "CREATE" -> HandleCreate(nm_call.user, nm_call.file, fault)
         [] nm_call.cmd = "DELETE" -> HandleDelete(nm_call.user, nm_call.file, fault)
         [] nm_call.cmd = "ADDACCESS" ->
                HandleAddAccess(nm_call.user, FlagW, nm_call.file, Bob, fault)
         [] nm_call.cmd = "REMACCESS" ->
                HandleRemAccess(nm_call.user, nm_call.file, Bob, fault)

\* storage server 1 has registered on descriptor 4; two clients are connected
InitOrder ==
    /\ buckets = [i \in BucketIds |-> <<>>]
    /\ total_files = 0
    /\ lru_cache = <<>>
    /\ storage_servers_list = add_storage_server(<<>>, 1, 4)
    /\ last_selected_index = -1
    /\ conn = [fd \in Fds |-> IF fd = 4 THEN [kind |-> "ss", ss |-> 1, ready |-> TRUE]
                                        ELSE FreeConn]
    /\ ss_disk = [s \in SS |-> [f \in FileNames |-> NoDoc]]
    /\ last = Response("SS_INIT", <<>>, STATUS_OK, "local")
    /\ reply = NoData
    /\ InitLock /\ InitSess /\ InitLoop /\ InitRx /\ InitServed
    /\ findLog = <<>>
    /\ faults = 0

NextOrder ==
    \/ \E fd \in ClientFds, req \in LoopRequests : ClientSends(fd, req)
    \/ \E fd \in ClientFds : ReadRequest(fd)
    \/ \E fault \in Faults : HandlerReturns(fault)

SpecOrder == InitOrder /\ [][NextOrder]_vars

\* the directory, the access lists, the registry and the cursor
DirectoryState == <<buckets, total_files, lru_cache, storage_servers_list,
                    last_selected_index, ss_disk>>

\* C22: the Name Server handles requests in a total order: from the moment its thread has
\* read a request until it has answered it, having waited for the storage node where
\* the request is forwarded, it reads no other connection's request, and the directory
\* and the access lists change in the step that answers that request and in no other.
C22_TotalOrder ==
    [][/\ nm_call # NoCall
            => \/ /\ nm_call' = nm_call
                  /\ last' = last
                  /\ UNCHANGED DirectoryState
               \/ /\ nm_call' = NoCall
                  /\ last'.cmd = nm_call.cmd
                  /\ last'.file = nm_call.file
       /\ nm_call = NoCall
            => /\ last' = last
               /\ UNCHANGED DirectoryState]_vars

\* a forwarded request is being handled while another connection's request waits, after
\* an earlier request changed the directory
C22_Witness ==
    /\ nm_call # NoCall
    /\ nm_call.cmd = "ADDACCESS"
    /\ TableLookup(buckets, F1) # NULL
    /\ find_storage_server_by_fd(storage_servers_list,
                                 RecordOf(buckets, F1).ss_socket_fd) # 0
    /\ \E fd \in ClientFds : fd # nm_call.fd /\ inbox[fd].cmd = "DELETE"

----------------------------------------------------------------------------
(* Properties of locks and sessions across connections *)

\* a session of the record's user for the record's sentence is open on some connection
SessionHolds(rec) ==
    \E c \in Conns :
        /\ sess[c].active
        /\ sess[c].filename = rec.filename
        /\ sess[c].sentence = rec.sentence_index
        /\ sess[c].user = rec.username

\* the lock of user u on sentence i of f is in the registry and no session holds it
Orphaned(f, i, u) ==
    /\ HeldIndex(global_lock_list, f, i, u, 1) # 0
    /\ ~SessionHolds([filename |-> f, sentence_index |-> i, username |-> u])

\* C23 as stated: a lock left in the registry by a session that is gone stays there:
\* no step removes it.
C23_OrphanedLockStays ==
    [][\A i \in Indices, u \in Requesters :
          Orphaned(F1, i, u) => HeldIndex(global_lock_list', F1, i, u, 1) # 0]_vars

\* the step is a WRITE handshake of user u for sentence i of f that could not open the
\* data file
HandshakeOpenFails(u, f, i) ==
    /\ last'.cmd = "WRITE"
    /\ last'.status = STATUS_ERROR_NOT_FOUND
    /\ \E c \in Conns : SSWrite(c, u, <<f, Digit(i)>>, TRUE)

\* C23 (amended): a disconnect with an open session leaves the lock registry as it is;
\* while a record is in the registry no handshake of another user for its sentence
\* succeeds; a record leaves the registry only by the holder's own doing: a successful
\* ETIRW of a session of the holder for the sentence, or a new handshake of the holder
\* for the sentence that fails to open the data file.
C23_LockSurvivesDisconnect ==
    [][/\ \A c \in Conns :
             (last'.cmd = "DISCONNECT" /\ sess[c].active /\ ~sess'[c].open)
                => global_lock_list' = global_lock_list
       /\ \A k \in 1..Len(global_lock_list) :
             LET rec == global_lock_list[k]
                 f   == rec.filename
                 i   == rec.sentence_index
             IN  /\ \A v \in Requesters \ {rec.username}, c \in Conns :
                        HandshakeBy(c, v, f, i)
                           => last'.status # STATUS_OK /\ global_lock_list' = global_lock_list
                 /\ HeldIndex(global_lock_list', f, i, rec.username, 1) = 0
                       => \/ \E c \in Conns :
                                /\ sess[c].active
                                /\ sess[c].filename = f
                                /\ sess[c].sentence = i
                                /\ sess[c].user = rec.username
                                /\ EtirwStep(c)
                                /\ last'.status = STATUS_OK
                          \/ HandshakeOpenFails(rec.username, f, i)]_vars

\* after a disconnect left a lock behind, another user's handshake for the sentence was
\* refused as locked
C23_Witness ==
    /\ last.cmd = "WRITE"
    /\ last.rpc = "session"
    /\ last.status = STATUS_ERROR_LOCKED
    /\ \E i \in Indices, u \in Requesters : Orphaned(F1, i, u)
    /\ \A c \in Conns : ~sess[c].active

----------------------------------------------------------------------------
(* Concurrent WRITE sessions: two client connections, Alice and Bob may write F1 *)

NextPair ==
    \/ \E c \in PairConns : ClientConnect(c)
    \/ \E c \in PairConns : ClientDisconnect(c)
    \/ \E c \in PairConns, u \in Requesters, i \in Indices :
           SSWrite(c, u, <<F1, Digit(i)>>, FALSE)
    \/ \E c \in PairConns : Etirw(c, "none")

SpecPair == RestartedWith(SharedAccess, T1, FALSE, <<>>) /\ [][NextPair]_vars

\* C24: WRITE sessions on the same (file, sentence index) exclude each other: no two
\* connections have an open session for the same pair at the same time.
C24_OneSessionPerPair ==
    \A c1, c2 \in PairConns :
        (c1 # c2 /\ sess[c1].active /\ sess[c2].active)
            => <<sess[c1].filename, sess[c1].sentence>>
                  # <<sess[c2].filename, sess[c2].sentence>>

\* sessions of two different users are open for the same pair
SessionsOfTwoUsers ==
    \E c1, c2 \in PairConns :
        /\ sess[c1].active /\ sess[c2].active
        /\ sess[c1].user # sess[c2].user
        /\ sess[c1].filename = sess[c2].filename
        /\ sess[c1].sentence = sess[c2].sentence

\* handshakes for a pair no record names succeed whatever sessions are open for other
\* pairs
FreePairHandshakeSucceeds ==
    [][\A c \in PairConns, u \in Requesters, i \in Indices :
          (/\ HandshakeBy(c, u, F1, i)
           /\ ~sess[c].active
           /\ LockIndex(global_lock_list, F1, i, 1) = 0)
              => last'.status = STATUS_OK /\ sess'[c].active]_vars

----------------------------------------------------------------------------
(* Frames (protocol.c): magic, payload, checksum.  A frame is the sequence of its       *)
(* bytes as they lie in memory; the payload stands for the command, user name and       *)
(* argument fields.  A uint32_t is the function from bit number (0 the lowest) to bit.  *)

Bit(n, i) == (n \div (2 ^ i)) % 2

Zero32 == [i \in 0..31 |-> 0]

\* checksum ^= bytes[i]
XorByte(w, b) == [i \in 0..31 |-> IF i < 8 THEN (w[i] + Bit(b, i)) % 2 ELSE w[i]]

\* (checksum << 1) | (checksum >> 31)
RotateLeft(w) == [i \in 0..31 |-> w[(i + 31) % 32]]

\* checksum << 1
ShiftLeft(w) == [i \in 0..31 |-> IF i = 0 THEN 0 ELSE w[i - 1]]

\* the bytes of a uint32_t in memory (little-endian), and the uint32_t read from four bytes
WordBytes(w) ==
    [k \in 1..4 |-> LET o == 8 * (k - 1)
                    IN  w[o] + 2 * w[o + 1] + 4 * w[o + 2] + 8 * w[o + 3] + 16 * w[o + 4]
                        + 32 * w[o + 5] + 64 * w[o + 6] + 128 * w[o + 7]]
BytesWord(b) == [i \in 0..31 |-> Bit(b[(i \div 8) + 1], i % 8)]

\* a checksum that shifts where calculate_checksum rotates
RECURSIVE checksum_shifting(_)
checksum_shifting(bytes) ==
    IF bytes = <<>> THEN Zero32
    ELSE ShiftLeft(XorByte(checksum_shifting(SubSeq(bytes, 1, Len(bytes) - 1)),
                           bytes[Len(bytes)]))

\* calculate_checksum over the bytes data[0..len-1]
RECURSIVE calculate_checksum(_)
calculate_checksum(bytes) ==
    IF bytes = <<>> THEN Zero32
    ELSE RotateLeft(XorByte(calculate_checksum(SubSeq(bytes, 1, Len(bytes) - 1)),
                            bytes[Len(bytes)]))

\* PROTOCOL_MAGIC 0xD0C5 as the four bytes of the uint32_t magic field
MagicBytes == <<197, 208, 0, 0>>

BodyLen  == 4 + PayloadLen
FrameLen == BodyLen + 4

BodyOf(packet)   == SubSeq(packet, 1, Len(packet) - 4)
StoredOf(packet) == BytesWord(SubSeq(packet, Len(packet) - 3, Len(packet)))

\* an integrity test that accepts the frame sent and no other
validate_exact(packet) == packet = rx.sent

validate_packet_integrity(packet) ==
    IF Len(packet) < 4 THEN FALSE
    ELSE StoredOf(packet) = calculate_checksum(BodyOf(packet))

\* send_packet: the magic and the checksum are set, the whole frame is sent
send_packet(payload) ==
    LET body == MagicBytes \o payload
    IN  body \o WordBytes(calculate_checksum(body))

\* a reception that tests the checksum before the magic
recv_checksum_first(read, packet) ==
    IF read = "error" THEN -1
    ELSE IF read = "closed" THEN 0
    ELSE IF ~validate_packet_integrity(packet) THEN -3
    ELSE IF SubSeq(packet, 1, 4) # MagicBytes THEN -2
    ELSE Len(packet)

\* recv_request and recv_packet.  read: how the recv loop ended ("error": recv returned
\* -1, "closed": recv returned 0, "full": the whole frame was read)
recv_request(read, packet) ==
    IF read = "error" THEN -1
    ELSE IF read = "closed" THEN 0
    ELSE IF SubSeq(packet, 1, 4) # MagicBytes THEN -2
    ELSE IF ~validate_packet_integrity(packet) THEN -3
    ELSE Len(packet)

\* payloads: a command byte followed by zeros, with or without a user name byte
Payload(cmd, user) ==
    [k \in 1..PayloadLen |-> IF k = 1 THEN cmd ELSE IF k = 5 THEN user ELSE 0]
Payloads == {Payload(3, 0), Payload(3, 97)}

\* values a byte takes when it is altered on the way
ByteVals == {0, 1, 2, 255}

Reads == {"full", "closed", "error"}

\* the positions at which two frames differ
Altered(a, b) == {p \in 1..Len(a) : a[p] # b[p]}

FrameStep == UNCHANGED <<nmVars, lockVars, findLog, sess, loopVars, served>>

SendFrame(payload) ==
    /\ rx = NoRx
    /\ rx' = [NoRx EXCEPT !.sent = send_packet(payload), !.wire = send_packet(payload)]
    /\ FrameStep

\* a byte of the frame arrives with another value, or with the value sent again
AlterByte(p, v) ==
    /\ rx.sent # <<>> /\ rx.read = ""
    /\ rx.wire[p] # v
    /\ Cardinality(Altered([rx.wire EXCEPT ![p] = v], rx.sent)) <= MaxAltered
    /\ rx' = [rx EXCEPT !.wire[p] = v]
    /\ FrameStep

\* process_connection_data: recv_request, and the dispatch of a request that was
\* received and passes validate_packet_integrity
Receive(read) ==
    /\ rx.sent # <<>> /\ rx.read = ""
    /\ LET bytes == recv_request(read, rx.wire)
       IN  rx' = [rx EXCEPT !.read = read,
                            !.outcome = bytes,
                            !.dispatched = bytes > 0 /\ validate_packet_integrity(rx.wire)]
    /\ FrameStep

NextFrame ==
    \/ \E payload \in Payloads : SendFrame(payload)
    \/ \E p \in 1..FrameLen, v \in ByteVals : AlterByte(p, v)
    \/ \E read \in Reads : Receive(read)

SpecFrame == Init /\ [][NextFrame]_vars

\* the frame that arrived has the magic sent, and the checksum of its body is the one
\* its checksum field holds
MagicIntact    == Altered(SubSeq(rx.wire, 1, 4), MagicBytes) = {}
ChecksumIntact == WordBytes(calculate_checksum(BodyOf(rx.wire)))
                     = SubSeq(rx.wire, BodyLen + 1, FrameLen)

\* C25: receiving a frame has one of four failing outcomes, each with its own return
\* value: the peer closed (0), the read failed (-1), the magic is wrong (-2), the
\* checksum does not match (-3); the magic is tested first, so a frame wrong in both is
\* reported as wrong magic; only a frame read in full with the right magic and a
\* matching checksum is returned with its size and handed to the dispatcher.
C25_ReceiveOutcomes ==
    rx.read # ""
       => /\ rx.read = "closed" => rx.outcome = 0
          /\ rx.read = "error" => rx.outcome = -1
          /\ (rx.read = "full" /\ ~MagicIntact) => rx.outcome = -2
          /\ (rx.read = "full" /\ MagicIntact /\ ~ChecksumIntact) => rx.outcome = -3
          /\ (rx.read = "full" /\ MagicIntact /\ ChecksumIntact) => rx.outcome = FrameLen
          /\ rx.dispatched <=> (rx.read = "full" /\ MagicIntact /\ ChecksumIntact)

\* a frame arrived in full with a magic byte altered, so that the checksum is wrong as
\* well, and was reported as wrong magic
C25_Witness ==
    /\ rx.read = "full"
    /\ ~MagicIntact
    /\ ~ChecksumIntact
    /\ rx.outcome = -2
    /\ ~rx.dispatched

\* C26: a frame whose checksum field was computed by calculate_checksum and which
\* differs from the frame sent in one byte outside the checksum field has another
\* checksum than the one sent and is rejected by validate_packet_integrity; the frame
\* with the byte as sent is accepted.
C26_SingleByteDetected ==
    rx.sent # <<>>
       => LET diff == Altered(rx.wire, rx.sent)
          IN  /\ (Cardinality(diff) = 1 /\ diff \subseteq 1..BodyLen)
                    => /\ calculate_checksum(BodyOf(rx.wire))
                             # calculate_checksum(BodyOf(rx.sent))
                       /\ ~validate_packet_integrity(rx.wire)
              /\ diff = {} => validate_packet_integrity(rx.wire)

\* a frame arrived with one payload byte altered and was rejected for its checksum
C26_Witness ==
    /\ rx.read = "full"
    /\ Cardinality(Altered(rx.wire, rx.sent)) = 1
    /\ Altered(rx.wire, rx.sent) \subseteq 5..BodyLen
    /\ rx.outcome = -3

\* C27: the checksum has collisions: for each frame sent there is a frame that differs
\* from it in two bytes outside the checksum field and has the same checksum; a frame
\* that arrives with two or more such bytes altered and the same checksum passes
\* validate_packet_integrity with the checksum field as sent, and is dispatched when its
\* magic is intact.
C27_ChecksumCollides ==
    /\ (rx.sent # <<>> /\ rx.wire = rx.sent /\ rx.read = "")
          => \E p, q \in 5..BodyLen, v, w \in ByteVals :
                /\ p < q /\ v # rx.sent[p] /\ w # rx.sent[q]
                /\ validate_packet_integrity([rx.sent EXCEPT ![p] = v, ![q] = w])
    /\ (/\ rx.sent # <<>>
        /\ Cardinality(Altered(rx.wire, rx.sent)) >= 2
        /\ Altered(rx.wire, rx.sent) \subseteq 1..BodyLen
        /\ calculate_checksum(BodyOf(rx.wire)) = calculate_checksum(BodyOf(rx.sent)))
          => /\ validate_packet_integrity(rx.wire)
             /\ (rx.read = "full" /\ MagicIntact) => rx.dispatched

\* a frame arrived with two payload bytes altered and was dispatched
C27_Witness ==
    /\ rx.read = "full"
    /\ Cardinality(Altered(rx.wire, rx.sent)) = 2
    /\ Altered(rx.wire, rx.sent) \subseteq 5..BodyLen
    /\ rx.outcome = FrameLen
    /\ rx.dispatched

----------------------------------------------------------------------------
(* Files of a storage node whose connection closed *)

\* handle_stream_file: handle_read_file under another command name
HandleStream(u, f) ==
    LET found == find_file_in_table(buckets, lru_cache, f)
        entry == Deref(buckets, found.entry)
    IN  Local("STREAM", u, f,
              IF found.entry = NULL THEN STATUS_ERROR_NOT_FOUND
              ELSE IF ~check_user_has_access(entry, u, ACCESS_READ)
                   THEN STATUS_ERROR_READ_PERMISSION
              ELSE IF find_storage_server_by_fd(storage_servers_list,
                                                entry.ss_socket_fd) = 0
                   THEN STATUS_ERROR_SERVER_UNAVAILABLE
              ELSE STATUS_OK,
              found.lru_cache)

\* Two storage nodes that connect, register and disconnect, clients that connect, one
\* document, and every command the Name Server routes to the document's node.
NextGone ==
    \/ \E s \in SS : AcceptSS(s) /\ NMStep
    \/ AcceptClient /\ NMStep
    \/ \E fd \in Fds : Disconnect(fd) /\ NMStep
    \/ \E fd \in Fds : HandleSSInit(fd) /\ NMStep
    \/ \E fault \in Faults : HandleCreate(Alice, F1, fault) /\ NMStep
    \/ \E u \in Requesters : HandleRead(u, F1) /\ NMStep
    \/ \E u \in Requesters : HandleStream(u, F1) /\ NMStep
    \/ \E u \in Requesters : HandleWrite(u, F1) /\ NMStep
    \/ \E u \in Requesters, fault \in Faults : HandleDelete(u, F1, fault) /\ NMStep
    \/ \E u \in Requesters, fault \in Faults : HandleUndo(u, F1, fault) /\ NMStep

SpecGone == Init /\ [][NextGone]_vars

\* the directory holds a record of f, a storage node that holds f has no connection, and
\* no storage node that is registered holds f
NodeGone(f) ==
    /\ TableLookup(buckets, f) # NULL
    /\ \E s \in SS : /\ ss_disk[s][f].data
                     /\ \A fd \in Fds : ~(conn[fd].kind = "ss" /\ conn[fd].ss = s)
    /\ \A fd \in Fds : PeerSS(fd) # 0 => ~ss_disk[PeerSS(fd)][f].data

\* the step is a READ, STREAM, WRITE or UNDO of f by a user whom f's record gives the
\* access the command needs, or a DELETE of f
RoutedCommand(u, f) ==
    \/ /\ check_user_has_access(RecordOf(buckets, f), u, ACCESS_READ)
       /\ (HandleRead(u, f) \/ HandleStream(u, f))
    \/ /\ check_user_has_access(RecordOf(buckets, f), u, ACCESS_WRITE)
       /\ (HandleWrite(u, f) \/ \E fault \in Faults : HandleUndo(u, f, fault))
    \/ \E fault \in Faults : HandleDelete(u, f, fault)

\* C28: once the connection of the storage node holding f has closed and as long as no
\* storage node holding f is registered, READ, STREAM, WRITE, DELETE and UNDO of f are
\* answered SERVER_UNAVAILABLE by the Name Server itself, whatever clients and storage
\* nodes have connected since.
C28_UnavailableWhileNodeGone ==
    [][\A u \in Requesters :
          (NodeGone(F1) /\ RoutedCommand(u, F1))
             => /\ last'.status = STATUS_ERROR_SERVER_UNAVAILABLE
                /\ last'.rpc = "local"]_vars

\* the close of a storage node's connection takes the node out of the registry and
\* leaves the directory as it is
NodeCloseKeepsFiles ==
    [][\A fd \in Fds :
          (conn[fd].kind = "ss" /\ Disconnect(fd))
             => /\ find_storage_server_by_fd(storage_servers_list', fd) = 0
                /\ buckets' = buckets
                /\ total_files' = total_files]_vars

\* while the descriptor of f's record names no registered node, the commands are
\* answered SERVER_UNAVAILABLE
UnavailableWhileFdUnused ==
    [][\A u \in Requesters :
          (/\ NodeGone(F1)
           /\ find_storage_server_by_fd(storage_servers_list,
                                        RecordOf(buckets, F1).ss_socket_fd) = 0
           /\ RoutedCommand(u, F1))
             => /\ last'.status = STATUS_ERROR_SERVER_UNAVAILABLE
                /\ last'.rpc = "local"]_vars

----------------------------------------------------------------------------
(* Requests answered by the Name Server alone and requests forwarded to a storage node *)

\* handle_info_file: answered from the FileRecord
HandleInfo(u, f) ==
    LET found == find_file_in_table(buckets, lru_cache, f)
        entry == Deref(buckets, found.entry)
    IN  Local("INFO", u, f,
              IF found.entry = NULL THEN STATUS_ERROR_NOT_FOUND
              ELSE IF ~check_user_has_access(entry, u, ACCESS_READ)
                   THEN STATUS_ERROR_READ_PERMISSION
              ELSE STATUS_OK,
              found.lru_cache)

\* what pipe, fork and the child's sh do in handle_exec_command
Spawns == {"run", "pipe_fails", "fork_fails"}

\* stdout and stderr of sh running the script: nothing for the empty script, otherwise
\* what the script prints, a text that is not the script
ScriptOutput(script) == IF script = <<>> THEN <<>> ELSE <<<<"$">>>> \o script

\* handle_exec_command: CMD_READ forwarded to the owning node, a refusal relayed, the
\* content run as a script and its output returned
HandleExec(u, f, fault, spawn) ==
    LET found == find_file_in_table(buckets, lru_cache, f)
        entry == Deref(buckets, found.entry)
        ss_fd == entry.ss_socket_fd
        s     == PeerSS(ss_fd)
        ss_response == read_request(ss_disk[s], f, fault = "ss_io")
        runs  == Received(fault) /\ ss_response.status = STATUS_OK
    IN  IF found.entry = NULL
        THEN fault = "none" /\ spawn = "run"
             /\ Local("EXEC", u, f, STATUS_ERROR_NOT_FOUND, found.lru_cache)
        ELSE IF ~check_user_has_access(entry, u, ACCESS_READ)
        THEN fault = "none" /\ spawn = "run"
             /\ Local("EXEC", u, f, STATUS_ERROR_READ_PERMISSION, found.lru_cache)
        ELSE IF find_storage_server_by_fd(storage_servers_list, ss_fd) = 0
        THEN fault = "none" /\ spawn = "run"
             /\ Local("EXEC", u, f, STATUS_ERROR_SERVER_UNAVAILABLE, found.lru_cache)
        ELSE /\ FaultPossible(ss_fd, fault)
             /\ fault = "ss_io" => ss_disk[s][f].data
             /\ spawn # "run" => runs
             /\ lru_cache' = found.lru_cache
             /\ reply' = IF fault = "send_fail"
                         THEN Msg("Failed to communicate with storage server", <<>>)
                         ELSE IF ~Received(fault)
                         THEN Msg("Failed to receive file from storage server", <<>>)
                         ELSE IF ss_response.status # STATUS_OK THEN ss_response.data
                         ELSE IF spawn = "pipe_fails" THEN Msg("Failed to create pipe: %s", <<>>)
                         ELSE IF spawn = "fork_fails" THEN Msg("Failed to fork: %s", <<>>)
                         ELSE [text |-> "", arg |-> <<>>,
                               body |-> ScriptOutput(ss_response.data.body)]
             /\ last' = Response("EXEC", f,
                            IF ~Received(fault) THEN STATUS_ERROR_INTERNAL
                            ELSE IF ss_response.status # STATUS_OK THEN ss_response.status
                            ELSE IF spawn # "run" THEN STATUS_ERROR_INTERNAL
                            ELSE STATUS_OK,
                            RpcOutcome(fault, ss_response.status))
             /\ faults' = faults + Spent(ss_fd, fault)
             /\ UNCHANGED <<buckets, total_files, storage_servers_list,
                            last_selected_index, conn, ss_disk>>

\* a file name validate_filename rejects
BadName == <<"a", "*">>
RouteNames == {F1, BadName}

\* One storage node holding Alice's document with a content and a backup; Alice and Bob
\* send every file command, Alice creates files and grants and revokes Bob's access.
InitRoute == RestartedWith(OwnerAccess, T1, TRUE, T0)

NextRoute ==
    \/ \E fd \in Fds : Disconnect(fd) /\ NMStep
    \/ \E f \in RouteNames, fault \in Faults : HandleCreate(Alice, f, fault) /\ NMStep
    \/ \E u \in Requesters, fault \in Faults : HandleDelete(u, F1, fault) /\ NMStep
    \/ \E u \in Requesters : HandleRead(u, F1) /\ NMStep
    \/ \E u \in Requesters : HandleStream(u, F1) /\ NMStep
    \/ \E u \in Requesters : HandleWrite(u, F1) /\ NMStep
    \/ \E u \in Requesters : HandleInfo(u, F1) /\ NMStep
    \/ \E u \in Requesters, fault \in Faults : HandleUndo(u, F1, fault) /\ NMStep
    \/ \E u \in Requesters, fault \in Faults, spawn \in Spawns :
           HandleExec(u, F1, fault, spawn) /\ NMStep
    \/ \E p \in Flags, fault \in Faults : HandleAddAccess(Alice, p, F1, Bob, fault) /\ NMStep
    \/ \E fault \in Faults : HandleRemAccess(Alice, F1, Bob, fault) /\ NMStep

SpecRoute == InitRoute /\ [][NextRoute]_vars

\* the step is a file command other than CREATE, sent by u for f
FileCommand(u, f) ==
    \/ \E fault \in Faults : HandleDelete(u, f, fault)
    \/ HandleRead(u, f) \/ HandleStream(u, f) \/ HandleWrite(u, f) \/ HandleInfo(u, f)
    \/ \E fault \in Faults : HandleUndo(u, f, fault)
    \/ \E fault \in Faults, spawn \in Spawns : HandleExec(u, f, fault, spawn)
    \/ \E p \in Flags, t \in Targets, fault \in Faults : HandleAddAccess(u, p, f, t, fault)
    \/ \E t \in Targets, fault \in Faults : HandleRemAccess(u, f, t, fault)

\* u is not the owner f's record names and has no access list entry with the READ bit
\* (the WRITE bit)
LacksRead(u, f) ==
    /\ RecordOf(buckets, f).owner # u
    /\ ~HasRead(PermOf(RecordOf(buckets, f).acl, u))
LacksWrite(u, f) ==
    /\ RecordOf(buckets, f).owner # u
    /\ ~HasWrite(PermOf(RecordOf(buckets, f).acl, u))

\* the step answered with this status without an exchange with a storage node, and left
\* the file table, the registry, the placement cursor, the connections and the storage
\* nodes' files as they were
AnsweredLocally(status) ==
    /\ last'.status = status
    /\ last'.rpc = "local"
    /\ faults' = faults
    /\ ss_disk' = ss_disk
    /\ buckets' = buckets
    /\ total_files' = total_files
    /\ storage_servers_list' = storage_servers_list
    /\ last_selected_index' = last_selected_index
    /\ conn' = conn

\* C29: the Name Server answers by itself, sending nothing to a storage node and leaving
\* the directory as it is (the lookup may move the name within the lookup cache): CREATE
\* of an invalid name with INVALID_FILENAME and of a registered name with FILE_EXISTS,
\* every file command for a name the directory does not hold with NOT_FOUND, READ,
\* STREAM and EXEC by a user without the READ bit with READ_PERMISSION, WRITE and UNDO by
\* a user without the WRITE bit with WRITE_PERMISSION.
C29_ErrorsAnsweredLocally ==
    [][\A u \in Requesters, f \in RouteNames :
          /\ (~validate_filename(f) /\ \E fault \in Faults : HandleCreate(u, f, fault))
                => AnsweredLocally(STATUS_ERROR_INVALID_FILENAME)
          /\ validate_filename(f)
                => /\ (/\ TableLookup(buckets, f) # NULL
                       /\ \E fault \in Faults : HandleCreate(u, f, fault))
                         => AnsweredLocally(STATUS_ERROR_FILE_EXISTS)
                   /\ (TableLookup(buckets, f) = NULL /\ FileCommand(u, f))
                         => AnsweredLocally(STATUS_ERROR_NOT_FOUND)
                   /\ (/\ TableLookup(buckets, f) # NULL
                       /\ LacksRead(u, f)
                       /\ \/ HandleRead(u, f)
                          \/ HandleStream(u, f)
                          \/ \E fault \in Faults, spawn \in Spawns :
                                HandleExec(u, f, fault, spawn))
                         => AnsweredLocally(STATUS_ERROR_READ_PERMISSION)
                   /\ (/\ TableLookup(buckets, f) # NULL
                       /\ LacksWrite(u, f)
                       /\ \/ HandleWrite(u, f)
                          \/ \E fault \in Faults : HandleUndo(u, f, fault))
                         => AnsweredLocally(STATUS_ERROR_WRITE_PERMISSION)]_vars

\* Bob, who was granted READ only, asked for UNDO of a file whose storage node is
\* registered and holds a backup, and was refused by the Name Server
C29_Witness ==
    /\ last = Response("UNDO", F1, STATUS_ERROR_WRITE_PERMISSION, "local")
    /\ HasRead(PermOf(RecordOf(buckets, F1).acl, Bob))
    /\ LacksWrite(Bob, F1)
    /\ NodeOf(F1) # 0
    /\ ss_disk[NodeOf(F1)][F1].bak

\* the response of the storage node to the request a step forwards
CreateResponse(u, f, fault) ==
    LET sel == select_storage_server_for_create(storage_servers_list, last_selected_index)
        s   == PeerSS(sel.socket_fd)
    IN  [status |-> handle_create_request(ss_disk[s], f, u, fault = "ss_io").status,
         data   |-> create_response_data(ss_disk[s], f, fault = "ss_io")]
DeleteResponse(u, f, fault) ==
    [status |-> handle_delete_request(ss_disk[NodeOf(f)], f, u, fault = "ss_io").status,
     data   |-> delete_response_data(ss_disk[NodeOf(f)], f, u, fault = "ss_io")]
UndoResponse(f, fault) ==
    [status |-> undo_request(ss_disk[NodeOf(f)], f, fault = "ss_io").status,
     data   |-> undo_response_data(ss_disk[NodeOf(f)], f, fault = "ss_io")]
ReadResponse(f, fault) == read_request(ss_disk[NodeOf(f)], f, fault = "ss_io")

\* the response to the client has the status and the message of this response
Relayed(ss_response) ==
    /\ last'.status = ss_response.status
    /\ reply' = ss_response.data

\* the exchanges in which the storage node's response is received
Answering == {"none", "ss_io"}

\* C30 as stated: whenever the response of the storage node to a forwarded CREATE,
\* DELETE, UNDO or EXEC read is received, the Name Server's response to the client has
\* that response's status and message.
C30_ResponseRelayed ==
    [][\A u \in Requesters, fault \in Answering :
          /\ (HandleCreate(u, F1, fault) /\ last'.rpc # "local")
                => Relayed(CreateResponse(u, F1, fault))
          /\ (HandleDelete(u, F1, fault) /\ last'.rpc # "local")
                => Relayed(DeleteResponse(u, F1, fault))
          /\ (HandleUndo(u, F1, fault) /\ last'.rpc # "local")
                => Relayed(UndoResponse(F1, fault))
          /\ \A spawn \in Spawns :
                (HandleExec(u, F1, fault, spawn) /\ last'.rpc # "local")
                   => Relayed(ReadResponse(F1, fault))]_vars

\* C30: a response received with a status other than STATUS_OK is relayed with its
\* status and message, and the response to UNDO is relayed whatever its status; on
\* STATUS_OK the Name Server answers CREATE and DELETE with STATUS_OK and its own
\* message, and EXEC with the output of the script and STATUS_OK, or with INTERNAL when
\* the script cannot be started.
C30_RefusalsRelayed ==
    [][\A u \in Requesters, fault \in Answering :
          /\ (HandleCreate(u, F1, fault) /\ last'.rpc # "local")
                => IF CreateResponse(u, F1, fault).status # STATUS_OK
                   THEN Relayed(CreateResponse(u, F1, fault))
                   ELSE /\ last'.status = STATUS_OK
                        /\ reply' = Msg("File created successfully", <<>>)
          /\ (HandleDelete(u, F1, fault) /\ last'.rpc # "local")
                => IF DeleteResponse(u, F1, fault).status # STATUS_OK
                   THEN Relayed(DeleteResponse(u, F1, fault))
                   ELSE /\ last'.status = STATUS_OK
                        /\ reply' = Msg("File deleted successfully", <<>>)
          /\ (HandleUndo(u, F1, fault) /\ last'.rpc # "local")
                => Relayed(UndoResponse(F1, fault))
          /\ \A spawn \in Spawns :
                (HandleExec(u, F1, fault, spawn) /\ last'.rpc # "local")
                   => IF ReadResponse(F1, fault).status # STATUS_OK
                      THEN Relayed(ReadResponse(F1, fault))
                      ELSE IF spawn = "run"
                      THEN /\ last'.status = STATUS_OK
                           /\ reply'.body = ScriptOutput(ReadResponse(F1, fault).data.body)
                      ELSE last'.status = STATUS_ERROR_INTERNAL]_vars

\* the storage node refused Bob's DELETE of Alice's file and the Name Server passed the
\* refusal on
C30_Witness ==
    /\ last = Response("DELETE", F1, STATUS_ERROR_OWNER_REQUIRED, "refused")
    /\ reply = Msg("Only the owner can delete this file", <<>>)

----------------------------------------------------------------------------
(* Connections of the Name Server: accept, handshake, requests, close *)

\* storage servers that connect in SpecConn
NumConnSS == 1

\* calls of process_connection_data in a behaviour of SpecConn
MaxServes == 4

\* main loop: accept() of a connection from a user's client, which has sent nothing yet
AcceptUser ==
    /\ \E fd \in Fds : conn[fd].kind = "free"
    /\ conn' = [conn EXCEPT ![LowestFree] = [kind |-> "client", ss |-> 0, ready |-> FALSE]]
    /\ reply' = NoData
    /\ last' = Response("ACCEPT", <<>>, STATUS_OK, "local")
    /\ UNCHANGED <<buckets, total_files, lru_cache, storage_servers_list,
                   last_selected_index, ss_disk, faults>>

\* strncat of the discovered names with "," between them
RECURSIVE JoinNames(_)
JoinNames(files) ==
    IF files = <<>> THEN <<>>
    ELSE IF Len(files) = 1 THEN files[1]
    ELSE files[1] \o <<",">> \o JoinNames(Tail(files))

NmIp == <<"1">>

\* send_ss_init_packet: args "IP:PORT:FILE1,FILE2,..." of storage server s
send_ss_init_args(s, disk) ==
    NmIp \o <<":">> \o Digit(s) \o <<":">> \o JoinNames(discover_local_files(disk))

\* handle_ss_init on request.args: registers the node when the args hold an address and
\* a port and then answers; answers nothing otherwise.  The result is the number of
\* responses sent.
handle_ss_init(fd, args, frames) ==
    LET toks  == StrTok(args, ":")
        files == IF Len(toks) >= 3 THEN StrTok(toks[3], ",") ELSE <<>>
        tbl   == RegisterFiles([buckets |-> buckets, total_files |-> total_files], files, fd)
    IN  IF Len(toks) >= 2
        THEN /\ frames = 1
             /\ buckets' = tbl.buckets
             /\ total_files' = tbl.total_files
             /\ storage_servers_list' =
                    add_storage_server(storage_servers_list, ToInt(toks[2], 0), fd)
             /\ conn' = [conn EXCEPT ![fd].ready = TRUE]
             /\ reply' = NoData
             /\ last' = Response("SS_INIT", <<>>, STATUS_OK, "local")
             /\ UNCHANGED <<lru_cache, last_selected_index, ss_disk, faults>>
        ELSE /\ frames = 0
             /\ UNCHANGED nmVars

\* handle_client_init: register_or_reconnect_user marks the user active on this
\* descriptor, the welcome is sent
handle_client_init(fd) ==
    /\ conn' = [conn EXCEPT ![fd].ready = TRUE]
    /\ reply' = NoData
    /\ last' = Response("CLIENT_INIT", <<>>, STATUS_OK, "local")
    /\ UNCHANGED <<buckets, total_files, lru_cache, storage_servers_list,
                   last_selected_index, ss_disk, faults>>

\* the frames that arrive: one as sent, one with a byte of the magic altered, one with a
\* payload byte altered
GoodPacket == send_packet(Payload(3, 97))
BadMagicPacket == [GoodPacket EXCEPT ![1] = 0]
BadChecksumPacket == [GoodPacket EXCEPT ![5] = 0]

\* how a read on a connection ends, with the return value of recv_request
Arrivals == {<<"closed", GoodPacket>>, <<"error", GoodPacket>>, <<"full", GoodPacket>>,
             <<"full", BadMagicPacket>>, <<"full", BadChecksumPacket>>}
RecvResult == [a \in Arrivals |-> recv_request(a[1], a[2])]
RecvResults == {RecvResult[a] : a \in Arrivals}

\* requests a peer sends: a storage server its SS_INIT, with the args of
\* send_ss_init_packet or with args that name no port; a client CLIENT_INIT, file
\* commands for F1 and a command the Name Server does not know
ConnRequest(cmd, user, args) == [cmd |-> cmd, user |-> user, args |-> args]
RequestsOf(fd) ==
    IF conn[fd].kind = "ss"
    THEN {ConnRequest("SS_INIT", <<>>, a) :
             a \in {send_ss_init_args(conn[fd].ss, ss_disk[conn[fd].ss]), NmIp}}
    ELSE {ConnRequest(c, Alice, F1) :
             c \in {"CLIENT_INIT", "CREATE", "DELETE", "READ", "HEARTBEAT"}}

ConnStep == UNCHANGED <<global_lock_list, lock_list_mutex, wk, findLog, sess, loopVars, rx>>

\* process_connection_data(fd): recv_request; the cleanup when it returns <= 0; else the
\* handler of request.command
process_connection_data(fd, bytes, request, fault) ==
    /\ conn[fd].kind # "free"
    /\ served.n < MaxServes
    /\ ConnStep
    /\ IF bytes <= 0
       THEN /\ fault = "none"
            /\ Disconnect(fd)
            /\ served' = [fd |-> fd, bytes |-> bytes, ready |-> conn[fd].ready,
                          cmd |-> "", frames |-> 0, n |-> served.n + 1]
       ELSE /\ request \in RequestsOf(fd)
            /\ \E frames \in {0, 1} :
                  /\ served' = [fd |-> fd, bytes |-> bytes, ready |-> conn[fd].ready,
                                cmd |-> request.cmd, frames |-> frames,
                                n |-> served.n + 1]
                  /\ CASE request.cmd = "SS_INIT" ->
                            fault = "none" /\ handle_ss_init(fd, request.args, frames)
                       [] request.cmd = "CLIENT_INIT" ->
                            fault = "none" /\ frames = 1 /\ handle_client_init(fd)
                       [] request.cmd = "CREATE" ->
                            frames = 1 /\ HandleCreate(request.user, request.args, fault)
                       [] request.cmd = "DELETE" ->
                            frames = 1 /\ HandleDelete(request.user, request.args, fault)
                       [] request.cmd = "READ" ->
                            fault = "none" /\ frames = 1
                            /\ HandleRead(request.user, request.args)
                       [] OTHER ->
                            fault = "none" /\ frames = 1
                            /\ Local(request.cmd, request.user, <<>>,
                                     STATUS_ERROR_INVALID_OPERATION, lru_cache)

AnyRequests ==
    {ConnRequest("SS_INIT", <<>>, a) :
        a \in {send_ss_init_args(s, ss_disk[s]) : s \in 1..NumConnSS} \cup {NmIp}}
    \cup {ConnRequest(c, Alice, F1) :
             c \in {"CLIENT_INIT", "CREATE", "DELETE", "READ", "HEARTBEAT"}}

\* Storage servers and clients connect; frames arrive intact, damaged or not at all;
\* the storage servers answer every forwarded request.
NextConn ==
    \/ \E s \in 1..NumConnSS : AcceptSS(s) /\ NMStep
    \/ AcceptUser /\ NMStep
    \/ \E fd \in Fds, bytes \in RecvResults, request \in AnyRequests :
           process_connection_data(fd, bytes, request, "none")

SpecConn == Init /\ [][NextConn]_vars

\* C31: every request frame the Name Server accepts on a connection is answered with
\* exactly one response frame on that connection.
C31_OneResponsePerRequest ==
    served.bytes > 0 /\ served # NoServe => served.frames = 1

\* C32: the Name Server closes a connection, removing a storage node's registration or
\* marking a client inactive, only when the read returns zero bytes (or fails); a frame
\* rejected for its magic or its checksum leaves the registration and the connection in
\* place.
C32_ClosedOnlyOnZeroRead ==
    [][\A fd \in Fds :
          (conn[fd].kind # "free" /\ conn'[fd].kind = "free")
             => served'.bytes \in {0, -1}]_vars

\* the directory, the access lists and the storage nodes' files
FileState == <<buckets, total_files, ss_disk>>

\* C35: a file or ACL command arriving on a connection that has completed no handshake
\* is not handled: it changes no directory, ACL or storage node state.
C35_HandshakeBeforeCommands ==
    [][(/\ served' # served
        /\ served'.bytes > 0
        /\ ~served'.ready
        /\ served'.cmd \in {"CREATE", "DELETE", "READ"})
          => UNCHANGED FileState]_vars

----------------------------------------------------------------------------
(* The directory and its cache under Find, Insert and Remove *)

\* operations on the directory in a behaviour of SpecCache
MaxCacheOps == 4

\* names already cached when the behaviour starts: one below the capacity
NumCached == LRU_CACHE_CAPACITY - 1

\* find_file_in_table for each name in turn
RECURSIVE FindEach(_, _)
FindEach(b, names) ==
    IF names = <<>> THEN <<>>
    ELSE find_file_in_table(b, FindEach(b, SubSeq(names, 1, Len(names) - 1)),
                            names[Len(names)]).lru_cache

LogEntry(op, name, entry, fd, present) ==
    [op |-> op, name |-> name, entry |-> entry, fd |-> fd, present |-> present]

\* the log of those lookups
RECURSIVE FoundEach(_, _)
FoundEach(b, names) ==
    IF names = <<>> THEN <<>>
    ELSE <<LogEntry("Find", Head(names), TableLookup(b, Head(names)), 0, FALSE)>>
         \o FoundEach(b, Tail(names))

\* the Name Server after a storage server on descriptor 4 registered with f0 .. f9 and
\* handlers looked up f0 .. f8 in that order
InitCache ==
    /\ \E tbl \in {RegisterFiles([buckets |-> [i \in {hash_filename(LruNames[k]) :
                                                      k \in 1..NumNames} |-> <<>>],
                                  total_files |-> 0],
                                 SubSeq(LruNames, 1, LRU_CACHE_CAPACITY), 4)} :
          /\ buckets = tbl.buckets
          /\ total_files = tbl.total_files
          /\ lru_cache = FindEach(tbl.buckets, SubSeq(LruNames, 1, NumCached))
          /\ findLog = FoundEach(tbl.buckets, SubSeq(LruNames, 1, NumCached))
    /\ storage_servers_list = add_storage_server(<<>>, 1, 4)
    /\ last_selected_index = -1
    /\ conn = [fd \in Fds |-> IF fd = 4 THEN [kind |-> "ss", ss |-> 1, ready |-> TRUE]
                                        ELSE FreeConn]
    /\ ss_disk = [s \in SS |-> [k \in {LruNames[i] : i \in 1..NumNames} |->
                                   IF s = 1 /\ k # LruNames[NumNames]
                                   THEN [NoDoc EXCEPT !.data = TRUE] ELSE NoDoc]]
    /\ last = Response("SS_INIT", <<>>, STATUS_OK, "local")
    /\ reply = NoData
    /\ faults = 0
    /\ InitLock
    /\ InitSess
    /\ InitLoop
    /\ InitRx /\ InitServed

CacheStep ==
    /\ Len(findLog) < NumCached + MaxCacheOps
    /\ UNCHANGED <<storage_servers_list, last_selected_index, conn, ss_disk, last, faults,
                   global_lock_list, lock_list_mutex, wk, sess, loopVars, rx, reply, served>>

\* Find: find_file_in_table as the handlers call it
CacheFind(filename) ==
    LET r == find_file_in_table(buckets, lru_cache, filename)
    IN  /\ CacheStep
        /\ lru_cache' = r.lru_cache
        /\ findLog' = Append(findLog, LogEntry("Find", filename, r.entry, 0, FALSE))
        /\ UNCHANGED <<buckets, total_files>>

\* Insert: add_file_to_table as handle_create_file (with metadata) and handle_ss_init
\* (metadata == NULL) call it
CacheInsert(filename, ss_socket_fd, metadata) ==
    LET r == add_file_to_table(buckets, total_files, filename, ss_socket_fd, metadata)
    IN  /\ CacheStep
        /\ buckets' = r.buckets
        /\ total_files' = r.total_files
        /\ findLog' = Append(findLog, LogEntry("Insert", filename, NULL, ss_socket_fd,
                                               metadata.present))
        /\ UNCHANGED lru_cache

\* Remove: remove_file_from_lru_cache, then remove_file_from_table, as handle_delete_file
\* calls them
CacheRemove(filename) ==
    LET r == remove_file_from_table(buckets, total_files, filename)
    IN  /\ CacheStep
        /\ lru_cache' = remove_file_from_lru_cache(lru_cache, filename)
        /\ buckets' = r.buckets
        /\ total_files' = r.total_files
        /\ findLog' = Append(findLog, LogEntry("Remove", filename, NULL, 0, FALSE))

\* the least and the most recently used of the cached names, a listed name not cached and
\* a name not in the directory
CacheNames == {LruNames[1], LruNames[NumCached], LruNames[LRU_CACHE_CAPACITY],
               LruNames[NumNames]}

\* what callers pass to add_file_to_table
Inserts == {<<4, Metadata(Alice, <<[user |-> Alice, perm |-> ACCESS_BOTH]>>)>>,
            <<5, NoMetadata>>}

NextCache ==
    \/ \E n \in CacheNames : CacheFind(n)
    \/ \E n \in CacheNames, i \in Inserts : CacheInsert(n, i[1], i[2])
    \/ \E n \in CacheNames : CacheRemove(n)

SpecCache == InitCache /\ [][NextCache]_vars

\* the operation a step of SpecCache performs
LastOp == findLog'[Len(findLog')]
OpStep(op) == Len(findLog') = Len(findLog) + 1 /\ LastOp.op = op

\* position in the log of the last Find that returned the name's record; 0 when none
LastFind(n) ==
    LET hits == {i \in 1..Len(findLog) : /\ findLog[i].op = "Find"
                                         /\ findLog[i].name = n
                                         /\ findLog[i].entry # NULL}
    IN  IF hits = {} THEN 0 ELSE CHOOSE i \in hits : \A j \in hits : j <= i

\* the cached name whose last Find is the oldest
OldestFound ==
    CHOOSE n \in CachedNames : \A o \in CachedNames : LastFind(n) <= LastFind(o)

\* the cache without the node of a name, order kept
Others(cache, n) == SelectSeq(cache, LAMBDA node : node.filename # n)

\* C33: the cache holds at most 10 entries and never two for one file name; a Find that
\* hits moves the entry to the most recently used position and leaves the order of the
\* others; a Find that misses while the cache is full and inserts evicts the entry whose
\* last Find is the oldest.
C33_CacheInvariants ==
    [][/\ Len(lru_cache') <= LRU_CACHE_CAPACITY
       /\ \A i, j \in 1..Len(lru_cache') :
              lru_cache'[i].filename = lru_cache'[j].filename => i = j
       /\ (OpStep("Find") /\ LastOp.name \in CachedNames)
             => /\ lru_cache'[1].filename = LastOp.name
                /\ Others(lru_cache', LastOp.name) = Others(lru_cache, LastOp.name)
       /\ (/\ OpStep("Find") /\ LastOp.name \notin CachedNames
           /\ LastOp.entry # NULL /\ Len(lru_cache) = LRU_CACHE_CAPACITY)
             => /\ lru_cache'[1].filename = LastOp.name
                /\ {lru_cache'[k].filename : k \in 1..Len(lru_cache')}
                      = (CachedNames \ {OldestFound}) \cup {LastOp.name}]_vars

\* the full cache took in a name and evicted f0, which is still in the directory
C33_Witness ==
    /\ Len(lru_cache) = LRU_CACHE_CAPACITY
    /\ findLog[Len(findLog)].op = "Find"
    /\ lru_cache[1].filename = findLog[Len(findLog)].name
    /\ LruNames[1] \notin CachedNames
    /\ TableLookup(buckets, LruNames[1]) # NULL

\* number of records in the chains of a set of buckets
RECURSIVE RecordCount(_, _)
RecordCount(b, ids) ==
    IF ids = {} THEN 0
    ELSE LET i == CHOOSE x \in ids : TRUE
         IN  Len(b[i]) + RecordCount(b, ids \ {i})

\* the record of a name in the directory
RecordNamed(b, n) == Deref(b, TableLookup(b, n))

\* the chains with the record of one name left out
WithoutName(b, n) ==
    [i \in DOMAIN b |-> SelectSeq(b[i], LAMBDA e : e.filename # n)]

\* C34: Insert of a name already in the directory replaces the record in place: the
\* owning node reference is updated, the file counter is unchanged and, without
\* metadata, owner and ACL are kept; Insert of a new name adds exactly one record and
\* increments the counter; the counter always equals the number of records.
C34_InsertInPlace ==
    [][/\ total_files' = RecordCount(buckets', DOMAIN buckets')
       /\ OpStep("Insert")
             => /\ WithoutName(buckets', LastOp.name) = WithoutName(buckets, LastOp.name)
                /\ RecordNamed(buckets', LastOp.name).filename = LastOp.name
                /\ RecordNamed(buckets', LastOp.name).ss_socket_fd = LastOp.fd
                /\ IF TableLookup(buckets, LastOp.name) # NULL
                   THEN /\ total_files' = total_files
                        /\ TableLookup(buckets', LastOp.name)
                              = TableLookup(buckets, LastOp.name)
                        /\ \A i \in DOMAIN buckets : Len(buckets'[i]) = Len(buckets[i])
                        /\ ~LastOp.present
                              => /\ RecordNamed(buckets', LastOp.name).owner
                                       = RecordNamed(buckets, LastOp.name).owner
                                 /\ RecordNamed(buckets', LastOp.name).acl
                                       = RecordNamed(buckets, LastOp.name).acl
                   ELSE /\ total_files' = total_files + 1
                        /\ RecordCount(buckets', DOMAIN buckets')
                              = RecordCount(buckets, DOMAIN buckets) + 1]_vars

\* a file created by alice on descriptor 4 is listed again, without metadata, by the
\* storage server on descriptor 5
C34_Witness ==
    /\ findLog[Len(findLog)].op = "Insert"
    /\ ~findLog[Len(findLog)].present
    /\ RecordNamed(buckets, findLog[Len(findLog)].name).owner = Alice
    /\ RecordNamed(buckets, findLog[Len(findLog)].name).ss_socket_fd = 5
    /\ total_files = LRU_CACHE_CAPACITY + 1

\* C37: under every sequence of Insert, Find and Remove (the cache purged before each
\* removal), Find returns what a lookup in the hash table alone returns: the same record,
\* or not found.
C37_CacheTransparent ==
    [][OpStep("Find") => LastOp.entry = TableLookup(buckets, LastOp.name)]_vars

\* a name found through the cache, removed, and then looked up and not found
C37_Witness ==
    /\ findLog[Len(findLog)].op = "Find"
    /\ findLog[Len(findLog)].entry = NULL
    /\ \E i, j \in 1..Len(findLog) :
          /\ i < j
          /\ findLog[i].op = "Find" /\ findLog[i].name = findLog[Len(findLog)].name
          /\ findLog[i].entry # NULL
          /\ findLog[j].op = "Remove" /\ findLog[j].name = findLog[Len(findLog)].name

----------------------------------------------------------------------------
(* Word updates inside a WRITE session *)

\* request.args of the form "<word-index> <word>"
WordUpdate(args) == IsNumber(args[1])

\* C36: while a connection's session is open, every WRITE "<word-index> <word>" is
\* handled as a word update and answered OK, whatever the word, a decimal number
\* included; it is never taken for a handshake.
C36_WordUpdatesAnswered ==
    [][\A c \in Conns, u \in Requesters, args \in WriteArgs :
          (/\ session_active(sess[c])
           /\ WordUpdate(args)
           /\ SSWrite(c, u, args, FALSE))
             => (last'.cmd = "UPDATE" /\ last'.status = STATUS_OK)]_vars

----------------------------------------------------------------------------
(* The lock of an open session *)

\* C38: whenever a connection has an open session for (file, index) with holder u, the
\* lock registry contains (file, index, u): the lock stays registered from the handshake
\* until that connection's ETIRW, whatever other connections, those of user u included,
\* do.
C38_OpenSessionIsLocked ==
    \A c \in PairConns :
        sess[c].active
           => HeldIndex(global_lock_list, sess[c].filename, sess[c].sentence,
                        sess[c].user, 1) # 0

----------------------------------------------------------------------------
(* ETIRW step by step, next to a READ on another connection *)

\* CMD_READ: the owner, or a user with an access_N entry whose permissions hold 'R'
has_read_access(doc, username) ==
    \/ doc.owner = username
    \/ \E i \in 1..Len(doc.access) :
          doc.access[i].user = username /\ StrChr(doc.access[i].perm, "R") # 0

\* the thread of client connection c
Thread(c) == wk[c]
InEtirw(c, pc) == Thread(c).op = "etirw" /\ Thread(c).pc = pc

FinalStep == UNCHANGED <<buckets, total_files, lru_cache, storage_servers_list,
                         last_selected_index, conn, lock_list_mutex, findLog, loopVars,
                         rx, served, faults>>

\* CMD_ETIRW up to rename(filepath, backup_path): without a session the error response;
\* else the file is moved to the backup path
EtirwRename(c) ==
    LET s == sess[c]
        f == s.filename
    IN  /\ sess[c].open
        /\ Thread(c).pc = "idle"
        /\ FinalStep
        /\ UNCHANGED <<sess, global_lock_list, reply>>
        /\ IF ~session_active(s)
           THEN /\ last' = SessionResponse("ETIRW", c, <<>>, STATUS_ERROR_INTERNAL)
                /\ UNCHANGED <<ss_disk, wk>>
           ELSE IF ~ss_disk[1][f].data
           THEN /\ last' = SessionResponse("ETIRW", c, f, STATUS_ERROR_INTERNAL)
                /\ UNCHANGED <<ss_disk, wk>>
           ELSE /\ ss_disk' = [ss_disk EXCEPT ![1][f].data = FALSE,
                                              ![1][f].text = <<>>,
                                              ![1][f].bak = TRUE,
                                              ![1][f].baktext = ss_disk[1][f].text]
                /\ wk' = [wk EXCEPT ![c] = [IdleWorker EXCEPT !.op = "etirw",
                                                              !.pc = "renamed",
                                                              !.file = f]]
                /\ UNCHANGED last

\* fopen(filepath, "w"): the file is there again, empty
EtirwOpen(c) ==
    /\ InEtirw(c, "renamed")
    /\ FinalStep
    /\ ss_disk' = [ss_disk EXCEPT ![1][sess[c].filename].data = TRUE,
                                  ![1][sess[c].filename].text = <<>>]
    /\ wk' = [wk EXCEPT ![c].pc = "opened"]
    /\ UNCHANGED <<sess, global_lock_list, reply, last>>

\* fwrite and fclose of the buffer, release_lock, free, the response
EtirwClose(c) ==
    LET s == sess[c]
    IN  /\ InEtirw(c, "opened")
        /\ FinalStep
        /\ ss_disk' = [ss_disk EXCEPT ![1][s.filename].text = s.buffer]
        /\ global_lock_list' = release_lock(global_lock_list, s.filename, s.sentence, s.user)
        /\ sess' = [sess EXCEPT ![c] = NoSession]
        /\ wk' = [wk EXCEPT ![c] = IdleWorker]
        /\ last' = SessionResponse("ETIRW", c, s.filename, STATUS_OK)
        /\ UNCHANGED reply

\* CMD_READ on a client connection: the sidecar is read for the permission, the file is
\* opened and sent, the connection is closed.  A file shorter than the 4096 byte buffer
\* is read by one fread; fopen and that fread are one step here, since an fread that
\* comes later returns what a later READ returns.
SSRead(c, u, filename) ==
    LET doc == ss_disk[1][filename]
        status == IF ~doc.meta THEN STATUS_ERROR_NOT_FOUND
                  ELSE IF ~has_read_access(doc, u) THEN STATUS_ERROR_READ_PERMISSION
                  ELSE IF ~doc.data THEN STATUS_ERROR_NOT_FOUND
                  ELSE STATUS_OK
    IN  /\ sess[c].open
        /\ Thread(c).pc = "idle"
        /\ FinalStep
        /\ last' = SessionResponse("READ", c, filename, status)
        /\ reply' = IF status = STATUS_OK THEN [NoData EXCEPT !.body = doc.text]
                    ELSE NoData
        /\ sess' = [sess EXCEPT ![c] = NoSession]
        /\ UNCHANGED <<ss_disk, global_lock_list, wk>>

\* Two connections: handshakes, the steps of ETIRW, and READ
NextFinal ==
    \/ \E c \in PairConns : ClientConnect(c)
    \/ \E c \in PairConns, u \in Requesters, i \in Indices :
           Thread(c).pc = "idle" /\ SSWrite(c, u, <<F1, Digit(i)>>, FALSE)
    \/ \E c \in PairConns : EtirwRename(c)
    \/ \E c \in PairConns : EtirwOpen(c)
    \/ \E c \in PairConns : EtirwClose(c)
    \/ \E c \in PairConns, u \in Requesters : SSRead(c, u, F1)

SpecFinal == RestartedWith(SharedAccess, T1, FALSE, <<>>) /\ [][NextFinal]_vars

\* what a READ of f may return: the content before the ETIRW under way, or the content
\* after it; the file's content when no ETIRW is under way
CompleteContents(f) ==
    IF \E w \in PairConns : Thread(w).op = "etirw" /\ Thread(w).file = f
    THEN {ss_disk[1][f].baktext}
         \cup {sess[w].buffer : w \in {x \in PairConns : Thread(x).op = "etirw"
                                                         /\ Thread(x).file = f}}
    ELSE {ss_disk[1][f].text}

\* C39: a READ of a file that exists and that the user may read, concurrent with an ETIRW
\* of another connection on the file, is not answered NOT_FOUND and receives the complete
\* content from before or from after the ETIRW, nothing else.
C39_ReadSeesCompleteFile ==
    [][\A c \in PairConns, u \in Requesters :
          (/\ ss_disk[1][F1].meta
           /\ has_read_access(ss_disk[1][F1], u)
           /\ SSRead(c, u, F1))
             => /\ last'.status = STATUS_OK
                /\ reply'.body \in CompleteContents(F1)]_vars

----------------------------------------------------------------------------
(* DELETE and CREATE of a document while WRITE sessions are open *)

\* The owner deletes and creates F1 through the Name Server while clients hold sessions
\* on the storage server
NextUnlink ==
    \/ \E c \in PairConns : ClientConnect(c)
    \/ \E c \in PairConns, u \in Requesters, i \in Indices :
           SSWrite(c, u, <<F1, Digit(i)>>, FALSE)
    \/ \E c \in PairConns : Etirw(c, "none")
    \/ HandleDelete(Alice, F1, "none") /\ NMStep
    \/ HandleCreate(Alice, F1, "none") /\ NMStep

SpecUnlink == RestartedWith(SharedAccess, T1, FALSE, <<>>) /\ [][NextUnlink]_vars

\* the records of the registry for a file, whatever the sentence
LocksOn(f) == {k \in 1..Len(global_lock_list) : global_lock_list[k].filename = f}

\* C40: after a DELETE of f succeeded no sentence lock on f is left in the registry, so
\* that a file created later under the name starts with every sentence unlocked.
C40_DeleteReleasesLocks ==
    (last.cmd \in {"DELETE", "CREATE"} /\ last.status = STATUS_OK) => LocksOn(last.file) = {}

====
